---------------------------- MODULE LoaderProofs ----------------------------
(***************************************************************************)
(* What holds of patch loading for any processes, loader classes and lists *)
(* of loaders.                                                             *)
(***************************************************************************)
EXTENDS Loader, SequenceFacts

-----------------------------------------------------------------------------
(* The inductive invariant *)

Call == [at : Nat, class : Classes, gen : Generations, method : {"loadAll", "loadOne"}]

Labels == {"unborn", "ready", "read", "create", "handle", "load", "finally", "finallyThrown",
           "failed"}

LoaderTypeOK ==
    /\ debug \in BOOLEAN /\ installed \in BOOLEAN
    /\ phase \in [Places -> Labels]
    /\ gen \in [Places -> Generations]
    /\ todo \in [Places -> Seq(Classes)]
    /\ loaders \in [Places -> [Generations -> Seq(Classes)]]
    /\ ran \in [Places -> Seq(Call)]
    /\ calls \in [Places -> 0..2]

\* The Zygote only makes a kernel; the processes fork from the finished one.
ZygoteWaits == phase[Zygote] \in {"read", "create", "ready"} /\ gen[Zygote] = "module"

\* The kernel of a process is the reloaded one only in a debug build, and
\* nothing is called before the kernel that calls is settled.
Loading == {"load", "finally", "finallyThrown"}
KernelSettled(p) ==
    /\ gen[p] = "debugger" => debug /\ installed
    /\ phase[p] \in Loading \/ Handled(p) => ~ReloadNeeded(p)
    /\ calls[p] = 0 => phase[p] \in {"unborn", "ready"}
    /\ phase[p] = "unborn" => calls[p] = 0
    /\ ~(phase[p] \in Loading \/ Handled(p)) => ran[p] = << >>

\* A call is of the loader at its place, and calls are in order.
InOrder(r) == \A i, j \in DOMAIN r : i < j => Precedes(r[i], r[j])

\* Of the loaders s the first n are through: their calls, and no other, are in r.
Through(p, r, s, g, n) == ToSet(r) = Due(p, s, g, n) /\ InOrder(r)

\* What is still to be visited is the rest of the loaders.
RestOf(rest, s, n) ==
    /\ n \in 0..Len(s) /\ Len(rest) = Len(s) - n
    /\ \A i \in 1..Len(rest) : rest[i] = s[n + i]

\* Between loadAll and the finally the call of the next loader is in r as well.
Halfway(p, r, s, g, n) ==
    /\ n + 1 \in 1..Len(s) /\ Target[s[n + 1]] = PackageOf[p]
    /\ ToSet(r) = Due(p, s, g, n) \cup
                    {[at |-> n + 1, class |-> s[n + 1], gen |-> g, method |-> "loadAll"]}
    /\ InOrder(r)

Visited(p) == Len(Kept(p)) - Len(todo[p])
Progress(p) ==
    /\ phase[p] \in Loading \/ Handled(p) => RestOf(todo[p], Kept(p), Visited(p))
    /\ phase[p] = "load" \/ Handled(p) => Through(p, ran[p], Kept(p), gen[p], Visited(p))
    /\ phase[p] \in {"finally", "finallyThrown"} =>
         Halfway(p, ran[p], Kept(p), gen[p], Visited(p))
    /\ Handled(p) => todo[p] = << >>

LoaderInv ==
    /\ LoaderTypeOK /\ ZygoteWaits
    /\ \A p \in Processes : KernelSettled(p) /\ Progress(p)


-----------------------------------------------------------------------------
(* The calls due, and one call more *)

\* A call of the loader at place n of s.
CallOf(s, g, n, m) == [at |-> n, class |-> s[n], gen |-> g, method |-> m]

\* No loader, no call.
LEMMA NothingDue ==
    ASSUME NEW p, NEW s, NEW g
    PROVE  Due(p, s, g, 0) = {}
BY DEF Due

\* The calls of the loader at place n, one for each method of the package.
CallsOf(p, s, g, n) == {CallOf(s, g, n, m) : m \in Methods(p)}

\* One loader more adds its calls if it is made for this package.
LEMMA OneMoreDue ==
    ASSUME NEW p, NEW s, NEW g, NEW n \in Nat, Target[s[n + 1]] = PackageOf[p]
    PROVE  Due(p, s, g, n + 1) = Due(p, s, g, n) \cup CallsOf(p, s, g, n + 1)
<1>1. 1..n + 1 = (1..n) \cup {n + 1}
  OBVIOUS
<1>2. ASSUME NEW e \in Due(p, s, g, n + 1)
      PROVE  e \in Due(p, s, g, n) \cup CallsOf(p, s, g, n + 1)
  <2>1. PICK k \in 1..n + 1, m \in Methods(p) :
          Target[s[k]] = PackageOf[p] /\ e = CallOf(s, g, k, m)
    BY <1>2 DEF Due, CallOf
  <2>2. CASE k = n + 1
    BY <2>1, <2>2 DEF CallsOf
  <2>3. CASE k \in 1..n
    BY <2>1, <2>3 DEF Due, CallOf
  <2> QED BY <1>1, <2>2, <2>3
<1>3. ASSUME NEW e \in Due(p, s, g, n)
      PROVE  e \in Due(p, s, g, n + 1)
  <2>1. PICK k \in 1..n, m \in Methods(p) :
          Target[s[k]] = PackageOf[p] /\ e = CallOf(s, g, k, m)
    BY <1>3 DEF Due, CallOf
  <2> QED BY <1>1, <2>1 DEF Due, CallOf
<1>4. ASSUME NEW e \in CallsOf(p, s, g, n + 1)
      PROVE  e \in Due(p, s, g, n + 1)
  <2>1. PICK m \in Methods(p) : e = CallOf(s, g, n + 1, m)
    BY <1>4 DEF CallsOf
  <2> QED BY <1>1, <2>1 DEF Due, CallOf
<1> QED BY <1>2, <1>3, <1>4

\* A loader made for another package adds none.
LEMMA NoMoreDue ==
    ASSUME NEW p, NEW s, NEW g, NEW n \in Nat, Target[s[n + 1]] # PackageOf[p]
    PROVE  Due(p, s, g, n + 1) = Due(p, s, g, n)
<1>1. 1..n + 1 = (1..n) \cup {n + 1}
  OBVIOUS
<1>2. {i \in 1..n + 1 : Target[s[i]] = PackageOf[p]} = {i \in 1..n : Target[s[i]] = PackageOf[p]}
  BY <1>1
<1> QED BY <1>2 DEF Due

\* The calls due are of the loaders up to n.
LEMMA DueAreEarlier ==
    ASSUME NEW p, NEW s, NEW g, NEW n \in Nat
    PROVE  \A e \in Due(p, s, g, n) : e.at \in 1..n /\ e.gen = g
BY DEF Due

\* A call that comes after all those made keeps the order.
LEMMA CallAppended ==
    ASSUME NEW r \in Seq(Call), NEW e \in Call, InOrder(r),
           \A d \in ToSet(r) : Precedes(d, e)
    PROVE  /\ Append(r, e) \in Seq(Call)
           /\ ToSet(Append(r, e)) = ToSet(r) \cup {e}
           /\ InOrder(Append(r, e))
<1> DEFINE q == Append(r, e)
           n == Len(r)
<1>1. n \in Nat /\ DOMAIN r = 1..n
  OBVIOUS
<1>2. /\ q \in Seq(Call) /\ DOMAIN q = 1..n + 1 /\ q[n + 1] = e
      /\ \A i \in 1..n : q[i] = r[i]
  BY AppendProperties, LenProperties
<1> HIDE DEF q, n
<1>3. 1..n + 1 = (1..n) \cup {n + 1}
  BY <1>1
<1>4. ToSet(q) = ToSet(r) \cup {e}
  BY AppendedSet DEF q
<1>5. ASSUME NEW i \in 1..n + 1, NEW j \in 1..n + 1, i < j
      PROVE  Precedes(q[i], q[j])
  <2>1. i \in 1..n /\ q[i] = r[i]
    BY <1>1, <1>2, <1>5
  <2>2. CASE j = n + 1
    <3>1. r[i] \in ToSet(r)
      BY <1>1, <2>1 DEF ToSet
    <3> QED BY <1>2, <2>1, <2>2, <3>1
  <2>3. CASE j \in 1..n
    BY <1>1, <1>2, <1>5, <2>1, <2>3 DEF InOrder
  <2> QED BY <1>1, <2>2, <2>3
<1>6. InOrder(q)
  BY <1>2, <1>5 DEF InOrder
<1> QED BY <1>2, <1>4, <1>6 DEF q

-----------------------------------------------------------------------------
(* The steps of ProcessSelector.loadPatch, on the calls made *)

\* A loader for another package is passed over.
LEMMA SkipThrough ==
    ASSUME NEW p, NEW r, NEW s, NEW g, NEW n \in Nat,
           Through(p, r, s, g, n), Target[s[n + 1]] # PackageOf[p]
    PROVE  Through(p, r, s, g, n + 1)
BY NoMoreDue DEF Through

\* loadAll of the next loader.
LEMMA AllHalfway ==
    ASSUME NEW p, NEW r \in Seq(Call), NEW s \in Seq(Classes), NEW g \in Generations,
           NEW n \in Nat, n + 1 \in 1..Len(s),
           Through(p, r, s, g, n), Target[s[n + 1]] = PackageOf[p]
    PROVE  /\ Append(r, CallOf(s, g, n + 1, "loadAll")) \in Seq(Call)
           /\ Halfway(p, Append(r, CallOf(s, g, n + 1, "loadAll")), s, g, n)
<1> DEFINE e == CallOf(s, g, n + 1, "loadAll")
<1>1. e \in Call
  BY DEF CallOf, Call
<1>2. ASSUME NEW d \in ToSet(r) PROVE Precedes(d, e)
  <2>1. d.at \in 1..n
    BY <1>2, DueAreEarlier DEF Through
  <2>2. e.at = n + 1
    BY DEF CallOf
  <2> HIDE DEF e
  <2> QED BY <2>1, <2>2 DEF Precedes
<1>3. InOrder(r) /\ ToSet(r) = Due(p, s, g, n)
  BY DEF Through
<1> HIDE DEF e
<1>4. Append(r, e) \in Seq(Call) /\ InOrder(Append(r, e)) /\ ToSet(Append(r, e)) = ToSet(r) \cup {e}
  BY <1>1, <1>2, <1>3, CallAppended
<1>5. e = [at |-> n + 1, class |-> s[n + 1], gen |-> g, method |-> "loadAll"]
  BY DEF e, CallOf
<1>6. Halfway(p, Append(r, e), s, g, n)
  BY <1>3, <1>4, <1>5 DEF Halfway
<1> QED BY <1>4, <1>6 DEF e

\* The finally in the main process.
LEMMA OneThrough ==
    ASSUME NEW p, NEW r \in Seq(Call), NEW s \in Seq(Classes), NEW g \in Generations,
           NEW n \in Nat, Halfway(p, r, s, g, n), NameOf[p] = PackageOf[p]
    PROVE  /\ Append(r, CallOf(s, g, n + 1, "loadOne")) \in Seq(Call)
           /\ Through(p, Append(r, CallOf(s, g, n + 1, "loadOne")), s, g, n + 1)
<1> DEFINE e == CallOf(s, g, n + 1, "loadOne")
           a == CallOf(s, g, n + 1, "loadAll")
<1>1. e \in Call
  BY DEF CallOf, Call, Halfway
<1>2. /\ InOrder(r) /\ ToSet(r) = Due(p, s, g, n) \cup {a}
      /\ Target[s[n + 1]] = PackageOf[p]
  BY DEF Halfway, CallOf
<1>3. /\ e.at = n + 1 /\ e.method = "loadOne"
      /\ a.at = n + 1 /\ a.method = "loadAll"
  BY DEF CallOf
<1>4. CallsOf(p, s, g, n + 1) = {a, e}
  <2>1. Methods(p) = {"loadAll", "loadOne"}
    BY DEF Methods
  <2> QED BY <2>1 DEF CallsOf
<1> HIDE DEF e, a
<1>5. ASSUME NEW d \in ToSet(r) PROVE Precedes(d, e)
  <2>1. CASE d \in Due(p, s, g, n)
    <3>1. d.at \in 1..n
      BY <2>1, DueAreEarlier
    <3> QED BY <1>3, <3>1 DEF Precedes
  <2>2. CASE d = a
    BY <1>3, <2>2 DEF Precedes
  <2> QED BY <1>2, <1>5, <2>1, <2>2
<1>6. Append(r, e) \in Seq(Call) /\ InOrder(Append(r, e)) /\ ToSet(Append(r, e)) = ToSet(r) \cup {e}
  BY <1>1, <1>2, <1>5, CallAppended
<1>7. Due(p, s, g, n + 1) = Due(p, s, g, n) \cup {a, e}
  <2>1. Due(p, s, g, n + 1) = Due(p, s, g, n) \cup CallsOf(p, s, g, n + 1)
    BY <1>2, OneMoreDue
  <2> QED BY <1>4, <2>1, Zenon
<1>8. ToSet(Append(r, e)) = Due(p, s, g, n + 1)
  BY <1>2, <1>6, <1>7
<1> QED BY <1>6, <1>8 DEF Through, e

\* The finally in another process.
LEMMA NoneThrough ==
    ASSUME NEW p, NEW r, NEW s, NEW g, NEW n \in Nat,
           Halfway(p, r, s, g, n), NameOf[p] # PackageOf[p]
    PROVE  Through(p, r, s, g, n + 1)
<1>1. CallsOf(p, s, g, n + 1) = {CallOf(s, g, n + 1, "loadAll")}
  BY DEF Methods, CallsOf
<1>2. Due(p, s, g, n + 1) = Due(p, s, g, n) \cup {CallOf(s, g, n + 1, "loadAll")}
  BY <1>1, OneMoreDue DEF Halfway
<1> QED BY <1>2 DEF Halfway, Through, CallOf

\* The next of the loaders still to be visited is the one after those through.
LEMMA NextOfRest ==
    ASSUME NEW s \in Seq(Classes), NEW rest \in Seq(Classes), NEW n \in Nat,
           RestOf(rest, s, n), rest # << >>
    PROVE  /\ n + 1 \in 1..Len(s) /\ Head(rest) = s[n + 1]
           /\ Tail(rest) \in Seq(Classes) /\ Len(Tail(rest)) = Len(rest) - 1
           /\ RestOf(Tail(rest), s, n + 1)
<1>1. /\ Len(rest) \in Nat \ {0} /\ Len(s) \in Nat
      /\ Head(rest) = rest[1]
      /\ Tail(rest) \in Seq(Classes) /\ Len(Tail(rest)) = Len(rest) - 1
      /\ \A i \in 1..Len(Tail(rest)) : Tail(rest)[i] = rest[i + 1]
  BY HeadTailProperties
<1>2. /\ n \in 0..Len(s) /\ Len(rest) = Len(s) - n
      /\ \A i \in 1..Len(rest) : rest[i] = s[n + i]
  BY DEF RestOf
<1>3. n + 1 \in 1..Len(s) /\ Len(Tail(rest)) = Len(s) - (n + 1) /\ Head(rest) = s[n + 1]
  BY <1>1, <1>2
<1>4. ASSUME NEW i \in 1..Len(Tail(rest)) PROVE Tail(rest)[i] = s[(n + 1) + i]
  <2>1. i + 1 \in 1..Len(rest) /\ n + (i + 1) = (n + 1) + i
    BY <1>1
  <2> QED BY <1>1, <1>2, <2>1
<1> QED BY <1>1, <1>3, <1>4 DEF RestOf


-----------------------------------------------------------------------------
(* LoaderInv is inductive *)

ProcessOK(p) == KernelSettled(p) /\ Progress(p)

\* LoaderInit makes the Zygote and nothing else.
LEMMA LoaderInitOK == LoaderInit => LoaderInv
<1> SUFFICES ASSUME LoaderInit PROVE LoaderInv
  OBVIOUS
<1> USE DEF LoaderInit
<1>1. LoaderTypeOK
  <2>1. << >> \in Seq(Classes) /\ << >> \in Seq(Call)
    OBVIOUS
  <2>2. [g \in Generations |-> << >>] \in [Generations -> Seq(Classes)]
    BY <2>1
  <2>3. debug \in BOOLEAN /\ installed \in BOOLEAN
    OBVIOUS
  <2>4. /\ phase \in [Places -> Labels]
        /\ gen \in [Places -> Generations] /\ calls \in [Places -> 0..2]
    BY DEF Generations, Labels
  <2>5. todo \in [Places -> Seq(Classes)] /\ ran \in [Places -> Seq(Call)]
    BY <2>1
  <2>6. loaders \in [Places -> [Generations -> Seq(Classes)]]
    BY <2>2
  <2> QED BY <2>3, <2>4, <2>5, <2>6 DEF LoaderTypeOK
<1>2. ZygoteWaits
  BY DEF ZygoteWaits, Places
<1>3. ASSUME NEW p \in Processes PROVE KernelSettled(p) /\ Progress(p)
  <2>1. p \in Places /\ phase[p] = "unborn" /\ calls[p] = 0 /\ ran[p] = << >> /\ gen[p] = "module"
    BY LoaderAssumption DEF Places
  <2> QED BY <2>1 DEF KernelSettled, Progress, Handled, Loading
<1> QED BY <1>1, <1>2, <1>3 DEF LoaderInv

\* A step of one place leaves every other process as it was.
LEMMA OthersStay ==
    ASSUME LoaderInv, NEW q \in Processes, UNCHANGED config,
           phase'[q] = phase[q], gen'[q] = gen[q], todo'[q] = todo[q],
           loaders'[q] = loaders[q], ran'[q] = ran[q], calls'[q] = calls[q]
    PROVE  ProcessOK(q)'
BY DEF LoaderInv, ProcessOK, KernelSettled, Progress, Handled, ReloadNeeded, Kept, Visited, config

\* What LoaderInv says of the place that steps.
LEMMA PlaceFacts ==
    ASSUME LoaderInv, NEW p \in Places
    PROVE  /\ phase[p] \in Labels
           /\ gen[p] \in Generations /\ todo[p] \in Seq(Classes)
           /\ loaders[p] \in [Generations -> Seq(Classes)] /\ Kept(p) \in Seq(Classes)
           /\ ran[p] \in Seq(Call) /\ calls[p] \in 0..2
BY DEF LoaderInv, LoaderTypeOK, Kept


\* While a kernel is made or handed over nothing has been called.
LEMMA KernelSteps ==
    ASSUME LoaderInv, NEW p \in Processes, UNCHANGED config,
           phase[p] \in {"read", "create", "handle"},
           phase'[p] \in {"read", "create", "handle", "failed"},
           gen'[p] = gen[p] \/ (gen'[p] = "debugger" /\ debug /\ installed),
           ran'[p] = ran[p], calls'[p] = calls[p]
    PROVE  ProcessOK(p)'
BY DEF LoaderInv, ProcessOK, KernelSettled, Progress, Handled, Loading, config

\* fork, and handleLoadPackage up to its first branch.
LEMMA ArrivalSteps ==
    ASSUME LoaderInv, NEW p \in Processes, Fork(p) \/ HandleFirst(p)
    PROVE  ProcessOK(p)'
<1> p \in Places
  BY DEF Places
<1>1. KernelSettled(p) /\ calls[p] \in 0..2 /\ phase \in [Places -> Labels] /\ calls \in [Places -> 0..2]
  BY DEF LoaderInv, LoaderTypeOK
<1>2. CASE Fork(p)
  <2>1. phase[p] = "unborn" /\ phase'[p] = "ready" /\ calls'[p] = calls[p] /\ ran'[p] = ran[p]
        /\ gen'[p] = gen[p] /\ debug' = debug /\ installed' = installed
    BY <1>1, <1>2 DEF Fork, GotoPhase, config
  <2> QED BY <1>1, <2>1 DEF ProcessOK, KernelSettled, Progress, Handled, Loading
<1>3. CASE HandleFirst(p)
  <2>1. phase[p] = "ready" /\ phase'[p] = "handle" /\ calls[p] = 0 /\ calls'[p] = 1 /\ ran'[p] = ran[p]
        /\ gen'[p] = gen[p] /\ debug' = debug /\ installed' = installed
    BY <1>1, <1>3 DEF HandleFirst, GotoPhase, config
  <2> QED BY <1>1, <2>1 DEF ProcessOK, KernelSettled, Progress, Handled, Loading
<1> QED BY <1>2, <1>3

\* A later package changes nothing.
LEMMA OtherPackage ==
    ASSUME LoaderInv, NEW p \in Processes, HandleOther(p)
    PROVE  ProcessOK(p)'
<1> p \in Places
  BY DEF Places
<1>1. ProcessOK(p) /\ calls \in [Places -> 0..2]
  BY DEF LoaderInv, LoaderTypeOK, ProcessOK
<1>2. /\ calls[p] = 1 /\ calls'[p] = 2
      /\ phase' = phase /\ gen' = gen /\ todo' = todo /\ loaders' = loaders /\ ran' = ran
      /\ debug' = debug /\ installed' = installed
  BY <1>1 DEF HandleOther, config
<1>3. /\ Kept(p)' = Kept(p) /\ Visited(p)' = Visited(p) /\ (ReloadNeeded(p)' <=> ReloadNeeded(p))
      /\ phase[p] = "ready" /\ Handled(p) /\ Handled(p)'
  BY <1>2 DEF Kept, Visited, ReloadNeeded, Handled, HandleOther
<1> QED BY <1>1, <1>2, <1>3 DEF ProcessOK, KernelSettled, Progress

\* initPatch begins with the first of the loaders and no call made.
LEMMA InitPatchStep ==
    ASSUME LoaderInv, NEW p \in Processes, InitPatch(p)
    PROVE  ProcessOK(p)'
<1> p \in Places
  BY DEF Places
<1> DEFINE s == Kept(p)
<1>1. /\ KernelSettled(p) /\ s \in Seq(Classes) /\ Len(s) \in Nat
      /\ phase \in [Places -> Labels] /\ todo \in [Places -> Seq(Classes)]
  BY PlaceFacts, LenProperties DEF LoaderInv, LoaderTypeOK
<1>2. /\ phase[p] = "handle" /\ phase'[p] = "load" /\ todo'[p] = s /\ ~ReloadNeeded(p)
      /\ gen' = gen /\ loaders' = loaders /\ ran' = ran /\ calls' = calls
      /\ debug' = debug /\ installed' = installed
  BY <1>1 DEF InitPatch, GotoPhase, config, Kept
<1>3. Kept(p)' = s /\ Visited(p)' = 0
  BY <1>1, <1>2 DEF Kept, Visited
<1>4. RestOf(s, s, 0)
  BY <1>1 DEF RestOf
<1>5. ran[p] = << >>
  BY <1>1, <1>2 DEF KernelSettled, Loading, Handled
<1>6. Through(p, << >>, s, gen[p], 0)
  BY NothingDue DEF Through, InOrder, ToSet
<1>7. KernelSettled(p)'
  BY <1>1, <1>2 DEF KernelSettled, Handled, Loading, ReloadNeeded
<1>8. Progress(p)'
  BY <1>2, <1>3, <1>4, <1>5, <1>6 DEF Progress, Handled
<1> QED BY <1>7, <1>8 DEF ProcessOK

\* A loader is passed over, called and left.
LEMMA LoadSteps ==
    ASSUME LoaderInv, NEW p \in Processes, LoadSkipped(p) \/ LoadAll(p) \/ LoadOne(p)
    PROVE  ProcessOK(p)' /\ ran'[p] \in Seq(Call)
<1> p \in Places
  BY DEF Places
<1> DEFINE s == Kept(p)
           n == Visited(p)
           r == ran[p]
           g == gen[p]
<1>1. /\ KernelSettled(p) /\ Progress(p)
      /\ s \in Seq(Classes) /\ todo[p] \in Seq(Classes) /\ r \in Seq(Call) /\ g \in Generations
      /\ phase \in [Places -> Labels] /\ todo \in [Places -> Seq(Classes)]
      /\ ran \in [Places -> Seq(Call)]
  BY PlaceFacts DEF LoaderInv, LoaderTypeOK
<1>2. /\ phase[p] \in Loading
      /\ gen' = gen /\ loaders' = loaders /\ calls' = calls
      /\ debug' = debug /\ installed' = installed
  BY DEF LoadSkipped, LoadAll, LoadOne, config, Loading
<1>3. RestOf(todo[p], s, n) /\ n \in Nat /\ Len(todo[p]) = Len(s) - n
  BY <1>1, <1>2 DEF Progress, RestOf
<1>4. todo[p] # << >>
  <2>1. CASE LoadSkipped(p) \/ LoadAll(p)
    BY <2>1 DEF LoadSkipped, LoadAll
  <2>2. CASE LoadOne(p)
    <3>1. n + 1 \in 1..Len(s)
      BY <1>1, <2>2 DEF LoadOne, Progress, Halfway
    <3>2. Len(s) \in Nat /\ Len(todo[p]) # 0
      BY <1>1, <1>3, <3>1, LenProperties
    <3> QED BY <3>2
  <2> QED BY <2>1, <2>2
<1>5. /\ n + 1 \in 1..Len(s) /\ Head(todo[p]) = s[n + 1]
      /\ Tail(todo[p]) \in Seq(Classes) /\ Len(Tail(todo[p])) = Len(todo[p]) - 1
      /\ RestOf(Tail(todo[p]), s, n + 1)
  BY <1>1, <1>3, <1>4, NextOfRest
<1>6. Kept(p)' = s
  BY <1>2 DEF Kept
<1>7. Len(s) - Len(todo[p]) + 1 = n + 1 /\ Len(s) \in Nat
  BY <1>1, <1>3, LenProperties
<1>8. ASSUME todo'[p] = Tail(todo[p]) PROVE Visited(p)' = n + 1
  <2>1. Visited(p)' = Len(s) - Len(Tail(todo[p]))
    BY <1>6, <1>8 DEF Visited
  <2> DEFINE a == Len(s)
             b == Len(todo[p])
             c == Len(Tail(todo[p]))
  <2>2. a \in Nat /\ n \in Nat /\ b = a - n /\ c = b - 1 /\ Visited(p)' = a - c
    BY <1>3, <1>5, <1>7, <2>1
  <2> HIDE DEF s, n, a, b, c
  <2> QED BY <2>2
<1>9. ASSUME todo'[p] = todo[p] PROVE Visited(p)' = n
  BY <1>6, <1>9 DEF Visited
<1>10. ASSUME phase'[p] \in Loading PROVE KernelSettled(p)'
  BY <1>1, <1>2, <1>10 DEF KernelSettled, Handled, Loading, ReloadNeeded
<1>11. CASE LoadSkipped(p)
  <2>1. /\ phase[p] = "load" /\ phase'[p] = "load" /\ todo'[p] = Tail(todo[p]) /\ ran' = ran
        /\ Target[s[n + 1]] # PackageOf[p]
    BY <1>1, <1>5, <1>11 DEF LoadSkipped, NextLoader
  <2>2. Through(p, r, s, g, n)
    BY <1>1, <2>1 DEF Progress
  <2> HIDE DEF s, n, r, g
  <2>3. Through(p, r, s, g, n + 1)
    BY <1>3, <2>1, <2>2, SkipThrough
  <2>4. Progress(p)'
    BY <1>2, <1>5, <1>6, <1>8, <2>1, <2>3 DEF Progress, Handled, Loading, r, g
  <2> QED BY <1>1, <1>10, <2>1, <2>4 DEF ProcessOK, Loading, r
<1>12. CASE LoadAll(p)
  <2>1. /\ phase[p] = "load" /\ todo' = todo /\ Target[s[n + 1]] = PackageOf[p]
        /\ phase'[p] \in {"finally", "finallyThrown"}
        /\ ran'[p] = Append(r, Entry(p, "loadAll"))
    BY <1>1, <1>5, <1>12 DEF LoadAll, GotoPhase
  <2>2. Through(p, r, s, g, n)
    BY <1>1, <2>1 DEF Progress
  <2>3. Entry(p, "loadAll") = CallOf(s, g, n + 1, "loadAll")
    BY <1>5, <1>7 DEF Entry, CallOf, Kept
  <2> HIDE DEF s, n, r, g
  <2>4. ran'[p] \in Seq(Call) /\ Halfway(p, ran'[p], s, g, n)
    <3>1. /\ Append(r, CallOf(s, g, n + 1, "loadAll")) \in Seq(Call)
          /\ Halfway(p, Append(r, CallOf(s, g, n + 1, "loadAll")), s, g, n)
      BY <1>1, <1>3, <1>5, <2>1, <2>2, AllHalfway
    <3> QED BY <2>1, <2>3, <3>1, Zenon
  <2>5. Progress(p)'
    BY <1>2, <1>3, <1>6, <1>9, <2>1, <2>4 DEF Progress, Handled, Loading, g
  <2> QED BY <1>10, <2>1, <2>4, <2>5 DEF ProcessOK, Loading
<1>13. CASE LoadOne(p)
  <2>1. /\ phase[p] \in {"finally", "finallyThrown"} /\ phase'[p] = "load"
        /\ todo'[p] = Tail(todo[p])
        /\ NameOf[p] = Target[s[n + 1]] => ran'[p] = Append(r, Entry(p, "loadOne"))
        /\ NameOf[p] # Target[s[n + 1]] => ran'[p] = r
    BY <1>1, <1>5, <1>13 DEF LoadOne, GotoPhase, NextLoader
  <2>2. Halfway(p, r, s, g, n)
    BY <1>1, <2>1 DEF Progress
  <2>3. Entry(p, "loadOne") = CallOf(s, g, n + 1, "loadOne")
    BY <1>5, <1>7 DEF Entry, CallOf, Kept
  <2> HIDE DEF s, n, r, g
  <2>4. Target[s[n + 1]] = PackageOf[p]
    BY <2>2 DEF Halfway
  <2>5. ran'[p] \in Seq(Call) /\ Through(p, ran'[p], s, g, n + 1)
    <3>1. CASE NameOf[p] = PackageOf[p]
      <4>1. /\ Append(r, CallOf(s, g, n + 1, "loadOne")) \in Seq(Call)
            /\ Through(p, Append(r, CallOf(s, g, n + 1, "loadOne")), s, g, n + 1)
        BY <1>1, <1>3, <2>2, <3>1, OneThrough
      <4> QED BY <2>1, <2>3, <2>4, <3>1, <4>1, Zenon
    <3>2. CASE NameOf[p] # PackageOf[p]
      BY <1>1, <1>3, <2>1, <2>2, <2>4, <3>2, NoneThrough
    <3> QED BY <3>1, <3>2
  <2>6. Progress(p)'
    BY <1>2, <1>5, <1>6, <1>8, <2>1, <2>5 DEF Progress, Handled, Loading, g
  <2> QED BY <1>10, <2>1, <2>5, <2>6 DEF ProcessOK, Loading
<1> QED BY <1>11, <1>12, <1>13

\* initPatch returns.
LEMMA LoadedStep ==
    ASSUME LoaderInv, NEW p \in Processes, Loaded(p)
    PROVE  ProcessOK(p)'
<1> p \in Places
  BY DEF Places
<1>1. ProcessOK(p) /\ phase \in [Places -> Labels] /\ calls[p] \in 0..2
  BY DEF LoaderInv, LoaderTypeOK, ProcessOK
<1>2. /\ phase[p] = "load" /\ phase'[p] = "ready" /\ todo[p] = << >>
      /\ gen' = gen /\ todo' = todo /\ loaders' = loaders /\ ran' = ran /\ calls' = calls
      /\ debug' = debug /\ installed' = installed
  BY <1>1 DEF Loaded, GotoPhase, config
<1>3. calls[p] > 0
  BY <1>1, <1>2 DEF ProcessOK, KernelSettled
<1>4. Kept(p)' = Kept(p) /\ Visited(p)' = Visited(p) /\ Handled(p)' /\ (ReloadNeeded(p)' <=> ReloadNeeded(p))
  BY <1>2, <1>3 DEF Kept, Visited, Handled, ReloadNeeded
<1> QED
  BY <1>1, <1>2, <1>3, <1>4 DEF ProcessOK, KernelSettled, Progress, Loading


\* Every step writes what the types allow: lists of classes that are parts of
\* the lists read, and calls of loaders that are kept.
LEMMA LoaderTypesKept ==
    ASSUME LoaderInv, LoaderNext
    PROVE  LoaderTypeOK'
<1> USE DEF LoaderInv, LoaderTypeOK
<1>1. ASSUME NEW p \in Places, ReadFile(p) PROVE LoaderTypeOK'
  <2>1. gen[p] \in Generations
    OBVIOUS
  <2>2. PICK file \in Files[gen[p]] \ {NoFile} : \E n \in 0..Len(file) :
          todo' = [todo EXCEPT ![p] = SubSeq(file, 1, n)]
    BY <1>1 DEF ReadFile
  <2>3. file \in Seq(Classes)
    BY <2>1, <2>2, LoaderAssumption
  <2>4. PICK n \in 0..Len(file) : todo' = [todo EXCEPT ![p] = SubSeq(file, 1, n)]
    BY <2>2
  <2>5. \A i \in 1..n : file[i] \in Classes
    BY <2>3, <2>4
  <2>6. n \in Int /\ SubSeq(file, 1, n) \in Seq(Classes)
    BY <2>3, <2>4, <2>5, SubSeqProperties
  <2> QED BY <1>1, <2>4, <2>6 DEF ReadFile, GotoPhase, config, Labels
<1>2. ASSUME NEW p \in Places, ReadDefault(p) PROVE LoaderTypeOK'
  <2>1. <<Default>> \in Seq(Classes)
    BY LoaderAssumption
  <2> QED BY <1>2, <2>1 DEF ReadDefault, GotoPhase, config, Labels
<1>3. ASSUME NEW p \in Places, Create(p) PROVE LoaderTypeOK'
  <2>1. /\ Head(todo[p]) \in Classes /\ Tail(todo[p]) \in Seq(Classes)
        /\ loaders[p][gen[p]] \in Seq(Classes) /\ gen[p] \in Generations
    BY <1>3 DEF Create
  <2>2. Append(loaders[p][gen[p]], Head(todo[p])) \in Seq(Classes)
    BY <2>1
  <2>3. [loaders[p] EXCEPT ![gen[p]] = Append(@, Head(todo[p]))] \in [Generations -> Seq(Classes)]
    BY <2>1, <2>2
  <2>4. loaders' = [loaders EXCEPT ![p] = [loaders[p] EXCEPT ![gen[p]] = Append(@, Head(todo[p]))]]
    BY <1>3 DEF Create
  <2>5. loaders' \in [Places -> [Generations -> Seq(Classes)]]
    BY <2>3, <2>4
  <2>6. todo' \in [Places -> Seq(Classes)]
    BY <1>3, <2>1 DEF Create
  <2> QED BY <1>3, <2>5, <2>6 DEF Create, config
<1>4. ASSUME NEW p \in Places, CreateFails(p) PROVE LoaderTypeOK'
  <2>1. Tail(todo[p]) \in Seq(Classes)
    BY <1>4 DEF CreateFails
  <2> QED BY <1>4, <2>1 DEF CreateFails, config
<1>5. ASSUME NEW p \in Places, Created(p) \/ ReloadFails(p) \/ Loaded(p) PROVE LoaderTypeOK'
  BY <1>5 DEF Created, ReloadFails, Loaded, GotoPhase, config, Labels
<1>6. ASSUME NEW p \in Places, Reload(p) PROVE LoaderTypeOK'
  <2>1. << >> \in Seq(Classes) /\ "debugger" \in Generations
    BY DEF Generations
  <2>2. [loaders[p] EXCEPT !["debugger"] = << >>] \in [Generations -> Seq(Classes)]
    BY <2>1
  <2>3. loaders' = [loaders EXCEPT ![p] = [loaders[p] EXCEPT !["debugger"] = << >>]]
    BY <1>6 DEF Reload
  <2>4. loaders' \in [Places -> [Generations -> Seq(Classes)]]
    BY <2>2, <2>3
  <2> QED BY <1>6, <2>1, <2>4 DEF Reload, GotoPhase, config, Labels
<1>7. ASSUME NEW p \in Places, InitPatch(p) PROVE LoaderTypeOK'
  BY <1>7 DEF InitPatch, GotoPhase, config, Labels
<1>8. ASSUME NEW p \in Places, LoadSkipped(p) \/ LoadAll(p) \/ LoadOne(p) PROVE LoaderTypeOK'
  <2>1. p \in Processes
    BY <1>8 DEF LoadSkipped, LoadAll, LoadOne, ZygoteWaits, Places
  <2>2. ran'[p] \in Seq(Call)
    BY <1>8, <2>1, LoadSteps
  <2>3. ran' \in [Places -> Seq(Call)]
    <3>1. CASE UNCHANGED ran
      BY <3>1
    <3>2. ASSUME NEW q, ran' = [ran EXCEPT ![p] = q] PROVE ran' \in [Places -> Seq(Call)]
      BY <2>2, <3>2
    <3> QED BY <1>8, <3>1, <3>2 DEF LoadSkipped, LoadAll, LoadOne
  <2>4. todo' \in [Places -> Seq(Classes)]
    <3>1. CASE todo[p] # << >>
      <4>1. Tail(todo[p]) \in Seq(Classes)
        BY <3>1
      <4> QED BY <1>8, <4>1 DEF LoadSkipped, LoadAll, LoadOne, NextLoader
    <3>2. CASE todo[p] = << >>
      <4>1. LoadOne(p) /\ Progress(p)
        BY <1>8, <2>1, <3>2 DEF LoadSkipped, LoadAll
      <4>2. Visited(p) + 1 \in 1..Len(Kept(p)) /\ Visited(p) = Len(Kept(p)) - 0
        BY <3>2, <4>1 DEF LoadOne, Progress, Halfway, Visited
      <4>3. Len(Kept(p)) \in Nat
        BY PlaceFacts, LenProperties
      <4> QED BY <4>2, <4>3
    <3> QED BY <3>1, <3>2
  <2>5. phase' \in [Places -> Labels]
    BY <1>8 DEF LoadSkipped, LoadAll, LoadOne, GotoPhase, Labels
  <2> QED BY <1>8, <2>3, <2>4, <2>5 DEF LoadSkipped, LoadAll, LoadOne, config
<1>9. ASSUME NEW p \in Processes, Fork(p) PROVE LoaderTypeOK'
  <2>1. p \in Places /\ Zygote \in Places
    BY DEF Places
  <2>2. loaders' \in [Places -> [Generations -> Seq(Classes)]] /\ phase' \in [Places -> Labels]
    BY <1>9, <2>1 DEF Fork, GotoPhase, Labels
  <2> QED BY <1>9, <2>2 DEF Fork, config
<1>10. ASSUME NEW p \in Processes, HandleFirst(p) \/ HandleOther(p) PROVE LoaderTypeOK'
  <2> 1 \in 0..2 /\ 2 \in 0..2
    OBVIOUS
  <2>1. calls' \in [Places -> 0..2]
    <3>1. calls' = [calls EXCEPT ![p] = 1] \/ calls' = [calls EXCEPT ![p] = 2]
      BY <1>10 DEF HandleFirst, HandleOther
    <3> QED BY <3>1
  <2>2. phase' \in [Places -> Labels]
    BY <1>10 DEF HandleFirst, HandleOther, GotoPhase, Labels
  <2> QED BY <1>10, <2>1, <2>2 DEF HandleFirst, HandleOther, config
<1> QED
  BY <1>1, <1>2, <1>3, <1>4, <1>5, <1>6, <1>7, <1>8, <1>9, <1>10 DEF LoaderNext, Step

\* The Zygote never handles a package.
LEMMA ZygoteKept ==
    ASSUME LoaderInv, LoaderNext
    PROVE  ZygoteWaits'
<1>1. /\ phase \in [Places -> Labels] /\ gen \in [Places -> Generations]
      /\ phase[Zygote] \in {"read", "create", "ready"} /\ gen[Zygote] = "module"
      /\ Zygote \in Places /\ Zygote \notin Processes
  BY LoaderAssumption DEF LoaderInv, LoaderTypeOK, ZygoteWaits, Places
<1>2. ASSUME NEW p \in Places, p # Zygote, Step(p) PROVE ZygoteWaits'
  BY <1>1, <1>2
     DEF ZygoteWaits, Step, ReadFile, ReadDefault, Create, CreateFails, Created, Reload,
         ReloadFails, InitPatch, LoadSkipped, LoadAll, LoadOne, Loaded, GotoPhase
<1>3. ASSUME Step(Zygote) PROVE ZygoteWaits'
  BY <1>1, <1>3
     DEF ZygoteWaits, Step, ReadFile, ReadDefault, Create, CreateFails, Created, Reload,
         ReloadFails, InitPatch, LoadSkipped, LoadAll, LoadOne, Loaded, GotoPhase
<1>4. ASSUME NEW p \in Processes, Fork(p) \/ HandleFirst(p) \/ HandleOther(p) PROVE ZygoteWaits'
  BY <1>1, <1>4 DEF ZygoteWaits, Fork, HandleFirst, HandleOther, GotoPhase
<1> QED BY <1>2, <1>3, <1>4 DEF LoaderNext

\* The step of one place keeps every process in order.
LEMMA ProcessesKept ==
    ASSUME LoaderInv, LoaderNext, NEW q \in Processes
    PROVE  ProcessOK(q)'
<1> q \in Places
  BY DEF Places
<1>1. /\ phase \in [Places -> Labels] /\ gen \in [Places -> Generations]
      /\ todo \in [Places -> Seq(Classes)] /\ ran \in [Places -> Seq(Call)]
      /\ calls \in [Places -> 0..2] /\ loaders \in [Places -> [Generations -> Seq(Classes)]]
  BY DEF LoaderInv, LoaderTypeOK
<1>2. UNCHANGED config
  BY DEF LoaderNext, Step, ReadFile, ReadDefault, Create, CreateFails, Created, Reload, ReloadFails,
     InitPatch, LoadSkipped, LoadAll, LoadOne, Loaded, Fork, HandleFirst, HandleOther
<1>3. ASSUME NEW p \in Places, p # q, Step(p) PROVE ProcessOK(q)'
  <2>1. /\ phase'[q] = phase[q] /\ gen'[q] = gen[q] /\ todo'[q] = todo[q]
        /\ loaders'[q] = loaders[q] /\ ran'[q] = ran[q] /\ calls'[q] = calls[q]
    BY <1>1, <1>3
       DEF Step, ReadFile, ReadDefault, Create, CreateFails, Created, Reload, ReloadFails,
           InitPatch, LoadSkipped, LoadAll, LoadOne, Loaded, GotoPhase, NextLoader
  <2> QED BY <1>2, <2>1, OthersStay
<1>4. ASSUME NEW p \in Processes, p # q, Fork(p) \/ HandleFirst(p) \/ HandleOther(p)
      PROVE  ProcessOK(q)'
  <2>1. /\ phase'[q] = phase[q] /\ gen'[q] = gen[q] /\ todo'[q] = todo[q]
        /\ loaders'[q] = loaders[q] /\ ran'[q] = ran[q] /\ calls'[q] = calls[q]
    BY <1>1, <1>4 DEF Fork, HandleFirst, HandleOther, GotoPhase
  <2> QED BY <1>2, <2>1, OthersStay
<1>5. ASSUME ReadFile(q) \/ ReadDefault(q) \/ Create(q) \/ CreateFails(q) \/ Created(q)
             \/ Reload(q) \/ ReloadFails(q)
      PROVE  ProcessOK(q)'
  <2>1. /\ phase[q] \in {"read", "create", "handle"}
        /\ phase'[q] \in {"read", "create", "handle", "failed"}
    BY <1>1, <1>5, LoaderAssumption
       DEF ReadFile, ReadDefault, Create, CreateFails, Created, Reload, ReloadFails, GotoPhase
  <2>2. /\ gen'[q] = gen[q] \/ (gen'[q] = "debugger" /\ debug /\ installed)
        /\ ran'[q] = ran[q] /\ calls'[q] = calls[q]
    BY <1>1, <1>5
       DEF ReadFile, ReadDefault, Create, CreateFails, Created, Reload, ReloadFails, ReloadNeeded
  <2> QED BY <1>2, <2>1, <2>2, KernelSteps
<1>6. ASSUME Step(q) PROVE ProcessOK(q)'
  BY <1>5, <1>6, InitPatchStep, LoadSteps, LoadedStep DEF Step
<1>7. ASSUME Fork(q) \/ HandleFirst(q) \/ HandleOther(q) PROVE ProcessOK(q)'
  BY <1>7, ArrivalSteps, OtherPackage
<1> QED BY <1>3, <1>4, <1>6, <1>7 DEF LoaderNext

-----------------------------------------------------------------------------
(* The theorems *)

\* In every reachable state each process has called exactly the loaders it is
\* through with, in order, and the kernel that calls is the one that should.
THEOREM LoaderInvariance == LoaderSpec => []LoaderInv
<1>1. LoaderInv /\ [LoaderNext]_loaderVars => LoaderInv'
  <2> SUFFICES ASSUME LoaderInv, [LoaderNext]_loaderVars PROVE LoaderInv'
    OBVIOUS
  <2>1. CASE LoaderNext
    BY <2>1, LoaderTypesKept, ZygoteKept, ProcessesKept DEF LoaderInv, ProcessOK
  <2>2. CASE UNCHANGED loaderVars
    <3>1. LoaderTypeOK' /\ ZygoteWaits'
      BY <2>2 DEF LoaderInv, LoaderTypeOK, ZygoteWaits, loaderVars
    <3>2. ASSUME NEW p \in Processes PROVE KernelSettled(p)' /\ Progress(p)'
      BY <2>2, OthersStay DEF ProcessOK, loaderVars, config
    <3> QED BY <3>1, <3>2 DEF LoaderInv
  <2> QED BY <2>1, <2>2
<1> QED BY <1>1, LoaderInitOK, PTL DEF LoaderSpec

\* However many packages come to a process and whether or not a debug build
\* hands over, one generation of loaders is called, each loader once and in the
\* order of mPatchLoaders.
THEOREM NeverLoadedTwice == LoaderSpec => []LoadedOnce
<1>1. LoaderInv => LoadedOnce
  <2> SUFFICES ASSUME LoaderInv, NEW p \in Processes
               PROVE  /\ \A i \in DOMAIN ran[p] :
                           ran[p][i].gen = IF debug /\ installed THEN "debugger" ELSE "module"
                      /\ InOrder(ran[p])
    BY DEF LoadedOnce, InOrder
  <2>1. KernelSettled(p) /\ Progress(p) /\ gen[p] \in Generations
    BY PlaceFacts DEF LoaderInv, Places
  <2>2. CASE ~(phase[p] \in Loading \/ Handled(p))
    BY <2>1, <2>2 DEF KernelSettled, InOrder
  <2>3. CASE phase[p] \in Loading \/ Handled(p)
    <3> DEFINE g == gen[p]
               n == Visited(p)
    <3>1. g = IF debug /\ installed THEN "debugger" ELSE "module"
      BY <2>1, <2>3 DEF KernelSettled, ReloadNeeded, Generations
    <3>2. n \in Nat
      BY <2>1, <2>3 DEF Progress, RestOf
    <3>3. InOrder(ran[p])
      BY <2>1, <2>3 DEF Progress, Loading, Through, Halfway
    <3>4. ASSUME NEW e \in ToSet(ran[p]) PROVE e.gen = g
      <4>1. e \in Due(p, Kept(p), g, n) \/
            e = [at |-> n + 1, class |-> Kept(p)[n + 1], gen |-> g, method |-> "loadAll"]
        BY <2>1, <2>3, <3>4 DEF Progress, Loading, Through, Halfway
      <4> HIDE DEF g, n
      <4> QED BY <3>2, <4>1, DueAreEarlier
    <3>5. \A i \in DOMAIN ran[p] : ran[p][i] \in ToSet(ran[p])
      BY DEF ToSet
    <3> QED BY <3>1, <3>3, <3>4, <3>5
  <2> QED BY <2>2, <2>3
<1> QED BY <1>1, LoaderInvariance, PTL

\* When handleLoadPackage is over, exactly the loaders made for this package
\* have been called, whichever loaders failed before or between them.
THEOREM NoLoaderForgotten == LoaderSpec => []EveryLoaderCalled
<1>1. LoaderInv => EveryLoaderCalled
  <2> SUFFICES ASSUME LoaderInv, NEW p \in Processes, Handled(p)
               PROVE  ToSet(ran[p]) = Due(p, Kept(p), gen[p], Len(Kept(p)))
    BY DEF EveryLoaderCalled
  <2>1. Progress(p) /\ Kept(p) \in Seq(Classes)
    BY PlaceFacts DEF LoaderInv, Places
  <2>2. todo[p] = << >> /\ Through(p, ran[p], Kept(p), gen[p], Visited(p))
    BY <2>1 DEF Progress
  <2>3. Visited(p) = Len(Kept(p))
    <3>1. Visited(p) = Len(Kept(p)) - 0 /\ Len(Kept(p)) \in Nat
      BY <2>1, <2>2, LenProperties DEF Visited
    <3> QED BY <3>1
  <2> QED BY <2>2, <2>3 DEF Through
<1> QED BY <1>1, LoaderInvariance, PTL
=============================================================================
