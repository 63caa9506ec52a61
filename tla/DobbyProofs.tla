---------------------------- MODULE DobbyProofs ----------------------------
(***************************************************************************)
(* What holds of Dobby: of the symbol resolver for any modules, however    *)
(* they are laid out, whatever their files hold and whoever unloads them;  *)
(* of the arena for any order of allocations; and of hooking on x86 for    *)
(* any functions, hooks and threads.                                       *)
(***************************************************************************)
EXTENDS SymbolResolver, Dobby, SequenceFacts, FiniteSetTheorems

-----------------------------------------------------------------------------
(* The inductive invariant of the resolver *)

Regions == Modules \cup {NoModule}

ResolverTypeOK ==
    /\ file \in [Modules -> Files]
    /\ regions \in Seq(Regions) /\ Once(regions) /\ NoModule \in ToSet(regions)
    /\ library \in Regions /\ named \in BOOLEAN
    /\ lines \in Seq(Regions) /\ found \in Seq(Modules) /\ todo \in Seq(Modules)
    /\ step \in {"dlsym", "answered", "open", "line", "file", "search", "resolved", "crashed"}

\* m is the first module in s that has the symbol, or NoModule if none has.
NoneIn(files, s) == \A i \in 1..Len(s) : ~Defines(files, s[i])
IsFirst(files, s, m) ==
    \/ m = NoModule /\ NoneIn(files, s)
    \/ /\ Defines(files, m)
       /\ \E i \in 1..Len(s) :
            s[i] = m /\ \A j \in 1..Len(s) : j < i => ~Defines(files, s[j])

\* Files are mapped one at a time, for the time of a search.
OneMapped ==
    /\ step \notin {"search", "crashed"} => mapped = {}
    /\ step = "crashed" => mapped = {} \/ \E x : mapped = {x}
    /\ step = "search" => /\ todo # << >> /\ file[Head(todo)].opens
                          /\ \E address \in MapsTo : mapped = {<<Head(todo), address>>}

\* Unless a module is unloaded, the lines read are of modules that are there.
LinesAreThere ==
    /\ "unload" \notin failed => Modules \subseteq ToSet(regions)
    /\ "unload" \notin failed /\ step = "line" => ToSet(lines) \subseteq ToSet(regions)
    /\ step = "crashed" => failed \cap {"unload", "mmap", "archive", "parse"} # {}

\* What is in found and in the lines still to be read leads to the same module
\* as the maps.
Scan(files, seen, rest, m) ==
    \/ NoneIn(files, seen) /\ IsFirst(files, rest, m)
    \/ m # NoModule /\ IsFirst(files, seen, m)
MapsScanned ==
    step = "line" /\ failed = {} =>
        /\ Scan(file, found, lines, FirstOf(file, regions))
        /\ named /\ library # NoModule => library \in ToSet(found) \cup ToSet(lines)

\* The library is searched first; the rest of the files only after it had no
\* such symbol, and then no file of todo's that is passed over had it.
FilesSearched ==
    /\ ~named /\ failed = {} => ~Defines(file, library)
    /\ step \in {"file", "search"} /\ failed = {} =>
         IF named THEN todo = <<library>> \/ (todo = << >> /\ ~Defines(file, library))
         ELSE IsFirst(file, todo, FirstOf(file, regions))

\* An address is that of the symbol in the module it should come from.
Right(files, m, address) ==
    Defines(files, m) /\ (address = LoadedAt[m] + Offset \/ files[m].base \in MapsTo)
Answered ==
    /\ step # "resolved" => result = 0
    /\ step = "resolved" /\ result # 0 /\ "misread" \notin failed =>
         \E m \in Modules : Right(file, m, result) /\ (failed = {} => m = Wanted)
    /\ step = "resolved" /\ result = 0 /\ failed = {} => Wanted = NoModule

ResolverInv ==
    /\ ResolverTypeOK /\ OneMapped /\ LinesAreThere /\ MapsScanned /\ FilesSearched /\ Answered

-----------------------------------------------------------------------------
(* The first module that has the symbol *)

\* A module of the list has the symbol only if it is a module.
LEMMA DefinerIsModule ==
    ASSUME NEW files, NEW m \in Regions, Defines(files, m)
    PROVE  m \in Modules /\ m # NoModule
BY DEF Defines, Regions

\* FirstOf finds the first.
LEMMA FirstOfIsFirst ==
    ASSUME NEW files, NEW s \in Seq(Regions)
    PROVE  IsFirst(files, s, FirstOf(files, s))
<1> DEFINE hits == {i \in DOMAIN s : Defines(files, s[i])}
<1>1. DOMAIN s = 1..Len(s) /\ Len(s) \in Nat /\ hits \in SUBSET Nat
  OBVIOUS
<1>2. CASE hits = {}
  <2>1. FirstOf(files, s) = NoModule
    BY <1>2 DEF FirstOf
  <2> QED BY <1>1, <1>2, <2>1 DEF IsFirst, NoneIn
<1>3. CASE hits # {}
  <2>1. FirstOf(files, s) = s[Min(hits)]
    BY <1>3 DEF FirstOf
  <2>2. Min(hits) \in hits /\ \A i \in hits : Min(hits) <= i
    BY <1>1, <1>3, MinOfNats
  <2> DEFINE k == Min(hits)
  <2>3. k \in 1..Len(s) /\ Defines(files, s[k])
    BY <1>1, <2>2
  <2>4. ASSUME NEW j \in 1..Len(s), j < k PROVE ~Defines(files, s[j])
    <3>1. j \notin hits
      <4> SUFFICES ASSUME j \in hits PROVE FALSE
        OBVIOUS
      <4>1. k <= j /\ k \in Nat /\ j \in Nat
        BY <1>1, <2>2
      <4> HIDE DEF k
      <4> QED BY <2>4, <4>1
    <3> QED BY <1>1, <3>1
  <2> HIDE DEF k
  <2> QED BY <2>1, <2>3, <2>4 DEF IsFirst, k
<1> QED BY <1>2, <1>3

\* There is one first.
LEMMA FirstIsUnique ==
    ASSUME NEW files, NEW s \in Seq(Regions), NEW m, NEW n,
           IsFirst(files, s, m), IsFirst(files, s, n)
    PROVE  m = n
<1>1. CASE NoneIn(files, s)
  BY <1>1 DEF IsFirst, NoneIn
<1>2. CASE ~NoneIn(files, s)
  <2>1. PICK i \in 1..Len(s) : /\ s[i] = m /\ Defines(files, m)
                               /\ \A k \in 1..Len(s) : k < i => ~Defines(files, s[k])
    BY <1>2 DEF IsFirst
  <2>2. PICK j \in 1..Len(s) : /\ s[j] = n /\ Defines(files, n)
                               /\ \A k \in 1..Len(s) : k < j => ~Defines(files, s[k])
    BY <1>2 DEF IsFirst
  <2>3. ~(i < j) /\ ~(j < i)
    BY <2>1, <2>2
  <2>4. i = j
    BY <2>1, <2>2, <2>3
  <2> QED BY <2>1, <2>2, <2>4
<1> QED BY <1>1, <1>2

\* The first of a list without elements.
LEMMA FirstOfNone ==
    ASSUME NEW files, NEW m, IsFirst(files, << >>, m)
    PROVE  m = NoModule
BY DEF IsFirst

\* The head is the first, or the first is in the tail.
LEMMA FirstAtHead ==
    ASSUME NEW files, NEW s \in Seq(Regions), s # << >>, NEW m, IsFirst(files, s, m),
           Defines(files, Head(s))
    PROVE  m = Head(s)
<1>1. Len(s) \in Nat /\ 1 \in 1..Len(s) /\ Head(s) = s[1]
  OBVIOUS
<1>2. ~NoneIn(files, s)
  BY <1>1 DEF NoneIn
<1>3. PICK i \in 1..Len(s) : s[i] = m /\ \A j \in 1..Len(s) : j < i => ~Defines(files, s[j])
  BY <1>2 DEF IsFirst
<1>4. ~(1 < i)
  BY <1>1, <1>3
<1>5. i = 1
  BY <1>1, <1>4
<1> QED BY <1>1, <1>3, <1>5

\* The first of the rest, if the head of the list has no such symbol.
LEMMA FirstInTail ==
    ASSUME NEW files, NEW s \in Seq(Regions), s # << >>, NEW m, IsFirst(files, s, m),
           ~Defines(files, Head(s))
    PROVE  IsFirst(files, Tail(s), m)
<1> DEFINE t == Tail(s)
<1>1. /\ Len(s) \in Nat /\ Len(t) = Len(s) - 1 /\ Head(s) = s[1] /\ Len(t) \in Nat
      /\ \A i \in 1..Len(t) : t[i] = s[i + 1] /\ i + 1 \in 1..Len(s)
  BY HeadTailProperties
<1> HIDE DEF t
<1>2. CASE m = NoModule /\ NoneIn(files, s)
  BY <1>1, <1>2 DEF IsFirst, NoneIn, t
<1>3. CASE Defines(files, m) /\ \E i \in 1..Len(s) :
             s[i] = m /\ \A j \in 1..Len(s) : j < i => ~Defines(files, s[j])
  <2>1. PICK i \in 1..Len(s) : s[i] = m /\ \A j \in 1..Len(s) : j < i => ~Defines(files, s[j])
    BY <1>3
  <2>2. i # 1
    BY <1>1, <1>3, <2>1
  <2>3. i - 1 \in 1..Len(t) /\ (i - 1) + 1 = i
    BY <1>1, <2>1, <2>2
  <2>4. t[i - 1] = m
    BY <1>1, <2>1, <2>3
  <2>5. ASSUME NEW j \in 1..Len(t), j < i - 1 PROVE ~Defines(files, t[j])
    <3>1. t[j] = s[j + 1] /\ j + 1 \in 1..Len(s) /\ j + 1 < i
      BY <1>1, <2>1, <2>5
    <3> QED BY <2>1, <3>1
  <2>6. IsFirst(files, t, m)
    BY <1>3, <2>3, <2>4, <2>5 DEF IsFirst
  <2> QED BY <2>6 DEF t
<1> QED BY <1>2, <1>3 DEF IsFirst

\* What is appended does not come before the first; without one it may be it.
LEMMA FirstAppended ==
    ASSUME NEW files, NEW s \in Seq(Regions), NEW x \in Regions
    PROVE  /\ NoneIn(files, s) /\ ~Defines(files, x) => NoneIn(files, Append(s, x))
           /\ NoneIn(files, s) /\ Defines(files, x) => IsFirst(files, Append(s, x), x)
           /\ \A m : m # NoModule /\ IsFirst(files, s, m) => IsFirst(files, Append(s, x), m)
<1> DEFINE t == Append(s, x)
           n == Len(s)
<1>1. n \in Nat /\ Len(t) = n + 1 /\ t[n + 1] = x /\ \A i \in 1..n : t[i] = s[i]
  BY AppendProperties
<1> HIDE DEF t
<1>2. 1..n + 1 = (1..n) \cup {n + 1} /\ \A j \in 1..n + 1 : j < n + 1 => j \in 1..n
  BY <1>1
<1>3. NoneIn(files, s) /\ ~Defines(files, x) => NoneIn(files, t)
  BY <1>1, <1>2 DEF NoneIn
<1>4. NoneIn(files, s) /\ Defines(files, x) => IsFirst(files, t, x)
  BY <1>1, <1>2 DEF NoneIn, IsFirst
<1>5. ASSUME NEW m, m # NoModule, IsFirst(files, s, m) PROVE IsFirst(files, t, m)
  <2>1. PICK i \in 1..n : /\ s[i] = m /\ Defines(files, m)
                          /\ \A j \in 1..n : j < i => ~Defines(files, s[j])
    BY <1>5 DEF IsFirst
  <2>2. ASSUME NEW j \in 1..n + 1, j < i PROVE ~Defines(files, t[j])
    <3>1. j \in 1..n
      BY <1>1, <2>1, <2>2
    <3> QED BY <1>1, <2>1, <2>2, <3>1
  <2>3. i \in 1..n + 1 /\ t[i] = m
    BY <1>1, <1>2, <2>1
  <2> QED BY <1>1, <2>1, <2>2, <2>3 DEF IsFirst
<1> QED BY <1>3, <1>4, <1>5 DEF t

\* The module wanted is the library if it has the symbol, or else the first of
\* the maps.
LEMMA WantedIs ==
    ASSUME NEW files, NEW l \in Regions, NEW s \in Seq(Regions)
    PROVE  FirstOf(files, <<l>> \o s) = IF Defines(files, l) THEN l ELSE FirstOf(files, s)
<1> DEFINE t == <<l>> \o s
<1>1. <<l>> \in Seq(Regions) /\ Len(<<l>>) = 1 /\ <<l>>[1] = l
  OBVIOUS
<1>2. /\ t \in Seq(Regions) /\ Len(t) = Len(<<l>>) + Len(s)
      /\ \A i \in 1..Len(<<l>>) : t[i] = <<l>>[i]
      /\ \A i \in 1..Len(s) : t[Len(<<l>>) + i] = s[i]
  BY <1>1, ConcatFacts
<1>3. Len(t) = 1 + Len(s) /\ t[1] = l /\ Len(s) \in Nat /\ \A i \in 1..Len(s) : t[1 + i] = s[i]
  BY <1>1, <1>2
<1> HIDE DEF t
<1>4. t # << >> /\ Head(t) = l /\ Tail(t) \in Seq(Regions) /\ Len(Tail(t)) = Len(s)
      /\ \A i \in 1..Len(s) : Tail(t)[i] = s[i]
  <2>1. t # << >>
    BY <1>2, <1>3
  <2>2. Tail(t) \in Seq(Regions) /\ Len(Tail(t)) = Len(s) /\ Head(t) = t[1]
    BY <1>2, <1>3, <2>1
  <2>3. \A i \in 1..Len(Tail(t)) : Tail(t)[i] = t[i + 1]
    BY <1>2, <2>1, HeadTailProperties
  <2>4. ASSUME NEW i \in 1..Len(s) PROVE Tail(t)[i] = s[i]
    <3>1. i + 1 = 1 + i
      OBVIOUS
    <3> QED BY <1>3, <2>2, <2>3, <3>1
  <2> QED BY <1>3, <2>1, <2>2, <2>4
<1>5. Tail(t) = s
  BY <1>4, SeqEqual
<1>6. IsFirst(files, t, FirstOf(files, t)) /\ IsFirst(files, s, FirstOf(files, s))
  BY <1>2, FirstOfIsFirst
<1>7. CASE Defines(files, l)
  BY <1>2, <1>4, <1>6, <1>7, FirstAtHead DEF t
<1>8. CASE ~Defines(files, l)
  <2>1. IsFirst(files, s, FirstOf(files, t))
    BY <1>2, <1>4, <1>5, <1>6, <1>8, FirstInTail
  <2>2. FirstOf(files, t) = FirstOf(files, s)
    BY <1>6, <2>1, FirstIsUnique
  <2> QED BY <1>8, <2>2 DEF t
<1> QED BY <1>7, <1>8


-----------------------------------------------------------------------------
(* ResolverInv is inductive *)

\* The regions at the begin hold every module once.
LEMMA FirstRegions ==
    ASSUME NEW s \in SetToSeqs(Modules)
    PROVE  /\ <<NoModule>> \o s \in Seq(Regions) /\ Once(<<NoModule>> \o s)
           /\ ToSet(<<NoModule>> \o s) = Regions
<1> DEFINE n == Cardinality(Modules)
           t == <<NoModule>> \o s
<1>1. n \in Nat /\ IsFiniteSet(Modules)
  BY SymbolResolverAssumption, FS_CardinalityType
<1>2. s \in [1..n -> Modules] /\ \A i, j \in 1..n : i # j => s[i] # s[j]
  BY DEF SetToSeqs
<1> HIDE DEF n
<1>3. s \in Seq(Modules) /\ Len(s) = n
  BY <1>1, <1>2
<1>4. \A m \in Modules : \E i \in 1..n : s[i] = m
  <2>1. s \in Injection(1..n, Modules)
    BY <1>2 DEF Injection, IsInjective
  <2>2. IsFiniteSet(1..n) /\ Cardinality(1..n) = n
    <3>1. Cardinality(1..n) = IF 1 > n THEN 0 ELSE n - 1 + 1
      BY <1>1, FS_Interval
    <3> QED BY <1>1, <3>1, FS_Interval
  <2>3. s \in Surjection(1..n, Modules)
    BY <1>1, <2>1, <2>2, FS_Injection DEF n
  <2> QED BY <2>3 DEF Surjection
<1>5. <<NoModule>> \in Seq(Regions) /\ s \in Seq(Regions) /\ Len(<<NoModule>>) = 1
  BY <1>3 DEF Regions
<1>6. /\ t \in Seq(Regions) /\ Len(t) = 1 + n /\ t[1] = NoModule
      /\ \A i \in 1..n : t[1 + i] = s[i]
  BY <1>3, <1>5, ConcatFacts
<1> HIDE DEF t
<1>7. ASSUME NEW i \in 1..1 + n PROVE i = 1 \/ (i - 1 \in 1..n /\ 1 + (i - 1) = i)
  BY <1>1
<1>8. ASSUME NEW i \in 1..1 + n, i # 1 PROVE t[i] = s[i - 1] /\ t[i] \in Modules
  BY <1>2, <1>6, <1>7, <1>8
<1>9. Once(t)
  <2> SUFFICES ASSUME NEW i \in 1..1 + n, NEW j \in 1..1 + n, t[i] = t[j] PROVE i = j
    BY <1>6 DEF Once
  <2>1. CASE i = 1 \/ j = 1
    BY <1>6, <1>8, <2>1, SymbolResolverAssumption
  <2>2. CASE i # 1 /\ j # 1
    <3>1. s[i - 1] = s[j - 1] /\ i - 1 \in 1..n /\ j - 1 \in 1..n
      BY <1>7, <1>8, <2>2
    <3>2. i - 1 = j - 1
      BY <1>2, <3>1
    <3> QED BY <1>1, <3>2
  <2> QED BY <2>1, <2>2
<1>10. ASSUME NEW m \in Regions PROVE m \in ToSet(t)
  <2>1. DOMAIN t = 1..1 + n /\ 1 \in 1..1 + n
    BY <1>1, <1>6, LenProperties
  <2>2. CASE m = NoModule
    BY <1>6, <2>1, <2>2 DEF ToSet
  <2>3. CASE m \in Modules
    <3>1. PICK i \in 1..n : s[i] = m
      BY <1>4, <2>3
    <3>2. 1 + i \in 1..1 + n /\ t[1 + i] = m
      BY <1>1, <1>6, <3>1
    <3> QED BY <2>1, <3>2 DEF ToSet
  <2> QED BY <2>2, <2>3 DEF Regions
<1>11. ToSet(t) \subseteq Regions
  BY <1>6 DEF ToSet
<1> QED BY <1>6, <1>9, <1>10, <1>11 DEF t

\* The invariant holds at first.
LEMMA ResolverInitOK == ResolverInit => ResolverInv
<1> SUFFICES ASSUME ResolverInit PROVE ResolverInv
  OBVIOUS
<1>1. PICK s \in SetToSeqs(Modules) : regions = <<NoModule>> \o s
  BY DEF ResolverInit
<1>2. regions \in Seq(Regions) /\ Once(regions) /\ ToSet(regions) = Regions
  BY <1>1, FirstRegions
<1>3. named \in BOOLEAN /\ (~named => library = NoModule)
  BY DEF ResolverInit
<1>4. ResolverTypeOK
  <2>1. << >> \in Seq(Regions) /\ << >> \in Seq(Modules)
    OBVIOUS
  <2> QED BY <1>2, <1>3, <2>1 DEF ResolverInit, ResolverTypeOK, Regions
<1>5. OneMapped /\ LinesAreThere /\ MapsScanned /\ Answered
  BY <1>2 DEF ResolverInit, OneMapped, LinesAreThere, MapsScanned, Answered, Regions
<1>6. FilesSearched
  BY <1>3 DEF ResolverInit, FilesSearched, Defines
<1> QED BY <1>4, <1>5, <1>6 DEF ResolverInv

\* Unloading a module takes its line out of the maps and nothing else.
LEMMA UnloadStep ==
    ASSUME ResolverInv, NEW m \in Modules, Unload(m)
    PROVE  ResolverInv'
<1>1. regions \in Seq(Regions) /\ Once(regions) /\ NoModule \in ToSet(regions) /\ m # NoModule
  BY SymbolResolverAssumption DEF ResolverInv, ResolverTypeOK
<1>2. /\ regions' = RemoveFirst(regions, m) /\ "unload" \in failed'
      /\ UNCHANGED <<file, library, named, lines, found, todo, mapped, step, result>>
      /\ step \notin {"answered", "resolved", "crashed"}
  BY DEF Unload
<1>3. regions' \in Seq(Regions) /\ Once(regions')
  BY <1>1, <1>2, RemoveFirstFacts
<1>4. NoModule \in ToSet(regions')
  <2>1. PICK i \in 1..Len(regions) : regions[i] = NoModule
    BY <1>1 DEF ToSet
  <2>2. PICK j \in 1..Len(RemoveFirst(regions, m)) : RemoveFirst(regions, m)[j] = NoModule
    BY <1>1, <2>1, RemoveFirstFacts
  <2> QED BY <1>2, <1>3, <2>2 DEF ToSet
<1>5. ResolverTypeOK'
  BY <1>2, <1>3, <1>4 DEF ResolverInv, ResolverTypeOK
<1>6. OneMapped' /\ LinesAreThere' /\ MapsScanned' /\ FilesSearched' /\ Answered'
  BY <1>2 DEF ResolverInv, OneMapped, LinesAreThere, MapsScanned, FilesSearched, Answered
<1> QED BY <1>5, <1>6 DEF ResolverInv

\* The maps are opened: what leads to a module there leads to it from the lines.
LEMMA OpenStep ==
    ASSUME ResolverInv, OpenMaps
    PROVE  ResolverInv'
<1> DEFINE w == FirstOf(file, regions)
           last == Last(regions)
<1>1. /\ file' = file /\ regions' = regions /\ library' = library
      /\ named' = named /\ todo' = todo /\ mapped' = mapped /\ result' = result /\ failed' = failed
      /\ step = "open" /\ step' = "line" /\ found' = << >> /\ lines' = Append(regions, last)
  BY DEF OpenMaps, given
<1>2. regions \in Seq(Regions) /\ NoModule \in ToSet(regions) /\ library \in Regions /\ named \in BOOLEAN
  BY DEF ResolverInv, ResolverTypeOK
<1>3. Len(regions) \in Nat /\ Len(regions) \in 1..Len(regions) /\ last \in Regions
  BY <1>2 DEF ToSet, Last
<1>4. last \in ToSet(regions) /\ last = regions[Len(regions)]
  BY <1>2, <1>3 DEF ToSet, Last
<1> HIDE DEF last
<1>5. lines' \in Seq(Regions) /\ ToSet(lines') = ToSet(regions)
  BY <1>1, <1>2, <1>3, <1>4, AppendedSet, AppendProperties
<1>6. IsFirst(file, regions, w)
  BY <1>2, FirstOfIsFirst
<1> HIDE DEF w
<1>7. IsFirst(file, lines', w)
  <2>1. CASE w # NoModule
    BY <1>1, <1>2, <1>3, <1>6, <2>1, FirstAppended
  <2>2. CASE w = NoModule
    <3>1. NoneIn(file, regions)
      BY <1>6, <2>2 DEF IsFirst, Defines
    <3>2. ~Defines(file, last)
      BY <1>3, <1>4, <3>1 DEF NoneIn
    <3>3. NoneIn(file, lines')
      BY <1>1, <1>2, <1>3, <3>1, <3>2, FirstAppended
    <3> QED BY <2>2, <3>3 DEF IsFirst
  <2> QED BY <2>1, <2>2
<1>8. MapsScanned'
  <2>1. NoneIn(file, << >>)
    BY DEF NoneIn
  <2>2. Scan(file', found', lines', FirstOf(file, regions)')
    BY <1>1, <1>7, <2>1 DEF Scan, w
  <2>3. ASSUME library # NoModule, failed = {} PROVE library \in ToSet(lines')
    BY <1>2, <1>5, <2>3 DEF ResolverInv, LinesAreThere, Regions
  <2> QED BY <1>1, <2>2, <2>3 DEF MapsScanned
<1>9. ResolverTypeOK'
  BY <1>1, <1>5 DEF ResolverInv, ResolverTypeOK
<1>10. OneMapped' /\ LinesAreThere'
  BY <1>1, <1>5 DEF ResolverInv, OneMapped, LinesAreThere
<1>11. FilesSearched' /\ Answered'
  BY <1>1 DEF ResolverInv, FilesSearched, Answered
<1> QED BY <1>8, <1>9, <1>10, <1>11 DEF ResolverInv


\* The maps cannot be opened, or dlsym is asked: nothing is found or read.
LEMMA EarlySteps ==
    ASSUME ResolverInv, Dlsym \/ OpenMapsFails
    PROVE  ResolverInv'
<1>1. CASE Dlsym
  <2>1. /\ file' = file /\ regions' = regions /\ library' = library /\ lines' = lines
        /\ named' = named /\ todo' = todo /\ mapped' = mapped /\ result' = result
        /\ failed' = failed /\ found' = found
        /\ step = "dlsym" /\ step' \in {"answered", "open"}
    BY <1>1 DEF Dlsym, given
  <2>2. ResolverTypeOK'
    BY <2>1 DEF ResolverInv, ResolverTypeOK
  <2>3. OneMapped' /\ LinesAreThere' /\ MapsScanned' /\ FilesSearched' /\ Answered'
    BY <2>1 DEF ResolverInv, OneMapped, LinesAreThere, MapsScanned, FilesSearched, Answered
  <2> QED BY <2>2, <2>3 DEF ResolverInv
<1>2. CASE OpenMapsFails
  <2>1. /\ file' = file /\ regions' = regions /\ library' = library
        /\ named' = named /\ todo' = todo /\ mapped' = mapped /\ result' = result
        /\ failed' = failed \cup {"fopen"} /\ found' = << >> /\ lines' = << >>
        /\ step = "open" /\ step' = "line"
    BY <1>2 DEF OpenMapsFails, given
  <2>2. << >> \in Seq(Regions) /\ << >> \in Seq(Modules) /\ ToSet(<< >>) = {} /\ failed' # {}
    BY <2>1 DEF ToSet
  <2>3. ResolverTypeOK'
    BY <2>1, <2>2 DEF ResolverInv, ResolverTypeOK
  <2>4. OneMapped' /\ LinesAreThere' /\ MapsScanned' /\ FilesSearched' /\ Answered'
    BY <2>1, <2>2 DEF ResolverInv, OneMapped, LinesAreThere, MapsScanned, FilesSearched, Answered
  <2> QED BY <2>3, <2>4 DEF ResolverInv
<1> QED BY <1>1, <1>2

\* One line is read: a region without ELF header is left out, a module is added
\* to those found.
LEMMA LineSteps ==
    ASSUME ResolverInv, SkipRegion \/ ReadHeader
    PROVE  ResolverInv'
<1> DEFINE w == FirstOf(file, regions)
           m == Head(lines)
<1>1. /\ file' = file /\ regions' = regions /\ library' = library
      /\ named' = named /\ todo' = todo /\ mapped' = mapped /\ result' = result /\ failed' = failed
      /\ step = "line" /\ lines # << >> /\ lines' = Tail(lines)
  BY DEF SkipRegion, ReadHeader, given
<1>2. /\ lines \in Seq(Regions) /\ found \in Seq(Modules) /\ regions \in Seq(Regions)
      /\ named \in BOOLEAN /\ library \in Regions
  BY DEF ResolverInv, ResolverTypeOK
<1>3. m \in Regions /\ Tail(lines) \in Seq(Regions) /\ ToSet(lines) = {m} \cup ToSet(Tail(lines))
  BY <1>1, <1>2, HeadTailSet, HeadTailProperties
<1>4. found \in Seq(Regions)
  BY <1>2 DEF Regions
<1> HIDE DEF w, m
<1>5. CASE SkipRegion
  <2>1. m = NoModule /\ found' = found /\ step' = "line"
    BY <1>1, <1>5 DEF SkipRegion, m
  <2>2. ~Defines(file, m)
    BY <2>1 DEF Defines
  <2>3. ASSUME failed = {} PROVE Scan(file, found, Tail(lines), w)
    <3>1. Scan(file, found, lines, w)
      BY <1>1, <2>3 DEF ResolverInv, MapsScanned, w
    <3>2. IsFirst(file, lines, w) => IsFirst(file, Tail(lines), w)
      BY <1>1, <1>2, <2>2, FirstInTail DEF m
    <3> QED BY <3>1, <3>2 DEF Scan
  <2>4. ASSUME failed = {}, named, library # NoModule
        PROVE  library \in ToSet(found) \cup ToSet(Tail(lines))
    <3>1. library \in ToSet(found) \cup ToSet(lines)
      BY <1>1, <2>4 DEF ResolverInv, MapsScanned
    <3> QED BY <1>3, <2>1, <2>4, <3>1
  <2>5. MapsScanned'
    BY <1>1, <2>1, <2>3, <2>4 DEF MapsScanned, w
  <2>6. ResolverTypeOK'
    BY <1>1, <1>3, <2>1 DEF ResolverInv, ResolverTypeOK
  <2>7. OneMapped' /\ LinesAreThere' /\ FilesSearched' /\ Answered'
    BY <1>1, <1>3, <2>1 DEF ResolverInv, OneMapped, LinesAreThere, FilesSearched, Answered
  <2> QED BY <2>5, <2>6, <2>7 DEF ResolverInv
<1>6. CASE ReadHeader
  <2>1. /\ m # NoModule /\ found' = Append(found, m)
        /\ step' = IF m \in ToSet(regions) THEN "line" ELSE "crashed"
    BY <1>1, <1>6 DEF ReadHeader, m
  <2>2. m \in Modules
    BY <1>3, <2>1 DEF Regions
  <2>3. found' \in Seq(Modules) /\ ToSet(found') = ToSet(found) \cup {m}
    BY <1>2, <2>1, <2>2, AppendedSet, AppendProperties
  <2>4. ASSUME failed = {} PROVE Scan(file, found', Tail(lines), w)
    <3>1. Scan(file, found, lines, w)
      BY <1>1, <2>4 DEF ResolverInv, MapsScanned, w
    <3>2. CASE w # NoModule /\ IsFirst(file, found, w)
      <4>1. IsFirst(file, found', w)
        BY <1>3, <1>4, <2>1, <3>2, FirstAppended
      <4> QED BY <3>2, <4>1 DEF Scan
    <3>3. CASE NoneIn(file, found) /\ IsFirst(file, lines, w) /\ Defines(file, m)
      <4>1. w = m
        BY <1>1, <1>2, <3>3, FirstAtHead DEF m
      <4>2. IsFirst(file, found', m)
        BY <1>3, <1>4, <2>1, <3>3, FirstAppended
      <4> QED BY <2>1, <4>1, <4>2 DEF Scan
    <3>4. CASE NoneIn(file, found) /\ IsFirst(file, lines, w) /\ ~Defines(file, m)
      <4>1. IsFirst(file, Tail(lines), w)
        BY <1>1, <1>2, <3>4, FirstInTail DEF m
      <4>2. NoneIn(file, found')
        BY <1>3, <1>4, <2>1, <3>4, FirstAppended
      <4> QED BY <4>1, <4>2 DEF Scan
    <3> QED BY <3>1, <3>2, <3>3, <3>4 DEF Scan
  <2>5. ASSUME failed = {}, named, library # NoModule
        PROVE  library \in ToSet(found') \cup ToSet(Tail(lines))
    <3>1. library \in ToSet(found) \cup ToSet(lines)
      BY <1>1, <2>5 DEF ResolverInv, MapsScanned
    <3> QED BY <1>3, <2>3, <3>1
  <2>6. MapsScanned'
    BY <1>1, <2>1, <2>4, <2>5 DEF MapsScanned, w
  <2>7. ResolverTypeOK'
    BY <1>1, <1>3, <2>1, <2>3 DEF ResolverInv, ResolverTypeOK
  <2>8. LinesAreThere'
    BY <1>1, <1>3, <2>1 DEF ResolverInv, LinesAreThere
  <2>9. OneMapped' /\ FilesSearched' /\ Answered'
    BY <1>1, <2>1 DEF ResolverInv, OneMapped, FilesSearched, Answered
  <2> QED BY <2>6, <2>7, <2>8, <2>9 DEF ResolverInv
<1> QED BY <1>5, <1>6

\* GetProcessModule, or all modules found.
LEMMA MapsReadStep ==
    ASSUME ResolverInv, MapsRead
    PROVE  ResolverInv'
<1> DEFINE w == FirstOf(file, regions)
<1>1. /\ file' = file /\ regions' = regions /\ library' = library /\ lines' = lines
      /\ named' = named /\ found' = found /\ mapped' = mapped /\ result' = result
      /\ failed' = failed /\ step = "line" /\ step' = "file" /\ lines = << >>
  BY DEF MapsRead, given
<1>2. found \in Seq(Modules) /\ named \in BOOLEAN /\ ToSet(found) \subseteq Modules
  BY DEF ResolverInv, ResolverTypeOK, ToSet
<1> HIDE DEF w
<1>3. CASE ~named
  <2>1. todo' = found
    BY <1>3 DEF MapsRead
  <2>2. ASSUME failed = {} PROVE IsFirst(file, found, w)
    <3>1. Scan(file, found, << >>, w)
      BY <1>1, <2>2 DEF ResolverInv, MapsScanned, w
    <3>2. IsFirst(file, << >>, w) => w = NoModule
      BY FirstOfNone
    <3> QED BY <3>1, <3>2 DEF Scan, IsFirst
  <2>3. ResolverTypeOK'
    BY <1>1, <1>2, <2>1 DEF ResolverInv, ResolverTypeOK
  <2>4. FilesSearched'
    BY <1>1, <1>3, <2>1, <2>2 DEF ResolverInv, FilesSearched, w
  <2>5. OneMapped' /\ LinesAreThere' /\ MapsScanned' /\ Answered'
    BY <1>1 DEF ResolverInv, OneMapped, LinesAreThere, MapsScanned, Answered
  <2> QED BY <2>3, <2>4, <2>5 DEF ResolverInv
<1>4. CASE named
  <2>1. todo' = IF library \in ToSet(found) THEN <<library>> ELSE << >>
    BY <1>4 DEF MapsRead
  <2>2. failed = {} => library \in ToSet(found) \/ ~Defines(file, library)
    BY <1>1, <1>4 DEF ResolverInv, MapsScanned, ToSet, Defines
  <2>3. todo' \in Seq(Modules)
    BY <1>2, <1>4, <2>1
  <2>4. ResolverTypeOK'
    BY <1>1, <1>2, <2>3 DEF ResolverInv, ResolverTypeOK
  <2>5. FilesSearched'
    BY <1>1, <1>4, <2>1, <2>2 DEF ResolverInv, FilesSearched
  <2>6. OneMapped' /\ LinesAreThere' /\ MapsScanned' /\ Answered'
    BY <1>1 DEF ResolverInv, OneMapped, LinesAreThere, MapsScanned, Answered
  <2> QED BY <2>4, <2>5, <2>6 DEF ResolverInv
<1> QED BY <1>2, <1>3, <1>4

\* A file that does not have the symbol is passed over.
LEMMA PassedOver ==
    ASSUME ResolverInv, todo # << >>, ~Defines(file, Head(todo)), UNCHANGED given, named' = named,
           step \in {"file", "search"}, step' = "file", todo' = Tail(todo), failed' = failed
    PROVE  FilesSearched' /\ Tail(todo) \in Seq(Modules)
<1> DEFINE w == FirstOf(file, regions)
<1>1. todo \in Seq(Modules) /\ todo \in Seq(Regions) /\ Tail(todo) \in Seq(Modules) /\ named \in BOOLEAN
  BY DEF ResolverInv, ResolverTypeOK, Regions
<1>2. ASSUME failed = {}, named PROVE Tail(todo) = << >> /\ ~Defines(file, library)
  <2>1. todo = <<library>>
    BY <1>2 DEF ResolverInv, FilesSearched
  <2>2. Tail(<<library>>) = << >> /\ Head(<<library>>) = library
    OBVIOUS
  <2> QED BY <2>1, <2>2
<1>3. ASSUME failed = {}, ~named PROVE IsFirst(file, Tail(todo), w)
  <2>1. IsFirst(file, todo, w)
    BY <1>3 DEF ResolverInv, FilesSearched
  <2> HIDE DEF w
  <2> QED BY <1>1, <2>1, FirstInTail
<1>4. w' = w /\ file' = file /\ library' = library
  BY DEF given
<1> HIDE DEF w
<1>5. FilesSearched'
  BY <1>2, <1>3, <1>4 DEF ResolverInv, FilesSearched, w
<1> QED BY <1>1, <1>5


\* Files that do not open, or whose mapping fails; the second round; the end.
LEMMA FileSteps ==
    ASSUME ResolverInv, NotOpened \/ MmapFails \/ SearchAll \/ NotFound
    PROVE  ResolverInv'
<1>0. /\ file' = file /\ regions' = regions /\ library' = library /\ UNCHANGED given
      /\ lines' = lines /\ found' = found /\ mapped' = mapped /\ result' = result /\ step = "file"
  BY DEF NotOpened, MmapFails, SearchAll, NotFound, given
<1>1. CASE NotOpened
  <2>1. /\ todo # << >> /\ ~file[Head(todo)].opens /\ todo' = Tail(todo) /\ step' = "file"
        /\ named' = named /\ failed' = failed
    BY <1>0, <1>1 DEF NotOpened
  <2>2. ~Defines(file, Head(todo))
    BY <2>1 DEF Defines
  <2>3. FilesSearched' /\ Tail(todo) \in Seq(Modules)
    BY <1>0, <2>1, <2>2, PassedOver
  <2>4. ResolverTypeOK'
    BY <1>0, <2>1, <2>3 DEF ResolverInv, ResolverTypeOK
  <2>5. OneMapped' /\ LinesAreThere' /\ MapsScanned' /\ Answered'
    BY <1>0, <2>1 DEF ResolverInv, OneMapped, LinesAreThere, MapsScanned, Answered
  <2> QED BY <2>3, <2>4, <2>5 DEF ResolverInv
<1>2. CASE MmapFails
  <2>1. step' = "crashed" /\ failed' = failed \cup {"mmap"} /\ named' = named /\ todo' = todo
    BY <1>2 DEF MmapFails
  <2>2. ResolverTypeOK'
    BY <1>0, <2>1 DEF ResolverInv, ResolverTypeOK
  <2>3. OneMapped' /\ LinesAreThere' /\ MapsScanned' /\ FilesSearched' /\ Answered'
    BY <1>0, <2>1 DEF ResolverInv, OneMapped, LinesAreThere, MapsScanned, FilesSearched, Answered
  <2> QED BY <2>2, <2>3 DEF ResolverInv
<1>3. CASE SearchAll
  <2>1. step' = "open" /\ failed' = failed /\ named /\ named' = FALSE /\ todo' = todo /\ todo = << >>
    BY <1>3 DEF SearchAll
  <2>2. failed = {} => ~Defines(file, library)
    BY <1>0, <2>1 DEF ResolverInv, FilesSearched
  <2>3. ResolverTypeOK'
    BY <1>0, <2>1 DEF ResolverInv, ResolverTypeOK
  <2>4. OneMapped' /\ LinesAreThere' /\ MapsScanned' /\ FilesSearched' /\ Answered'
    BY <1>0, <2>1, <2>2
       DEF ResolverInv, OneMapped, LinesAreThere, MapsScanned, FilesSearched, Answered
  <2> QED BY <2>3, <2>4 DEF ResolverInv
<1>4. CASE NotFound
  <2>1. step' = "resolved" /\ failed' = failed /\ ~named /\ named' = named /\ todo' = todo /\ todo = << >>
    BY <1>4 DEF NotFound
  <2>2. result = 0
    BY <1>0 DEF ResolverInv, Answered
  <2>3. ASSUME failed = {} PROVE Wanted' = NoModule
    <3>1. ~Defines(file, library) /\ IsFirst(file, << >>, FirstOf(file, regions))
      BY <1>0, <2>1, <2>3 DEF ResolverInv, FilesSearched
    <3>2. FirstOf(file, regions) = NoModule
      BY <3>1, FirstOfNone
    <3>3. library \in Regions /\ regions \in Seq(Regions)
      BY DEF ResolverInv, ResolverTypeOK
    <3>4. Wanted = NoModule
      BY <3>1, <3>2, <3>3, WantedIs DEF Wanted
    <3> QED BY <1>0, <3>4 DEF Wanted
  <2>4. ResolverTypeOK'
    BY <1>0, <2>1 DEF ResolverInv, ResolverTypeOK
  <2>5. OneMapped' /\ LinesAreThere' /\ MapsScanned' /\ FilesSearched'
    BY <1>0, <2>1 DEF ResolverInv, OneMapped, LinesAreThere, MapsScanned, FilesSearched
  <2>6. Answered'
    BY <1>0, <2>1, <2>2, <2>3 DEF Answered
  <2> QED BY <2>4, <2>5, <2>6 DEF ResolverInv
<1> QED BY <1>1, <1>2, <1>3, <1>4

\* A file is opened and mapped, or is not.
LEMMA MapFileStep ==
    ASSUME ResolverInv, NEW address \in MapsTo, MapFile(address)
    PROVE  ResolverInv'
<1>1. /\ file' = file /\ regions' = regions /\ library' = library /\ named' = named
      /\ lines' = lines /\ found' = found /\ todo' = todo /\ result' = result /\ failed' = failed
      /\ step = "file" /\ step' = "search" /\ todo # << >> /\ file[Head(todo)].opens
      /\ mapped' = mapped \cup {<<Head(todo), address>>}
  BY DEF MapFile, given
<1>2. mapped' = {<<Head(todo), address>>}
  BY <1>1 DEF ResolverInv, OneMapped
<1>3. OneMapped'
  BY <1>1, <1>2 DEF OneMapped
<1>4. ResolverTypeOK'
  BY <1>1 DEF ResolverInv, ResolverTypeOK
<1>5. LinesAreThere' /\ MapsScanned' /\ FilesSearched' /\ Answered'
  BY <1>1 DEF ResolverInv, LinesAreThere, MapsScanned, FilesSearched, Answered
<1> QED BY <1>3, <1>4, <1>5 DEF ResolverInv

\* The address computed: right unless the file was mapped where it was linked
\* for, and never 0.
LEMMA RelocatedFacts ==
    ASSUME file \in [Modules -> Files], NEW m \in Modules, NEW address \in MapsTo
    PROVE  /\ Lookup(m) = 0 <=> ~(file[m].sym \/ file[m].dyn)
           /\ Lookup(m) # 0 => /\ Relocated(m, address) # 0
                               /\ \/ Relocated(m, address) = LoadedAt[m] + Offset
                                  \/ file[m].base \in MapsTo
<1>1. /\ file[m].base \in Nat /\ Offset \in Nat \ {0} /\ LoadedAt[m] \in Nat \ {0}
      /\ address \in Nat \ {0}
  BY SymbolResolverAssumption DEF Files
<1>2. Lookup(m) = IF file[m].sym \/ file[m].dyn THEN file[m].base + Offset ELSE 0
  BY DEF Lookup
<1>3. Lookup(m) = 0 <=> ~(file[m].sym \/ file[m].dyn)
  BY <1>1, <1>2
<1>4. CASE Lookup(m) # 0 /\ address = file[m].base
  <2>1. Relocated(m, address) = (file[m].base + Offset) + LoadedAt[m] - (address + 1)
    BY <1>1, <1>2, <1>4 DEF Relocated, LoadBias
  <2> QED BY <1>1, <1>3, <1>4, <2>1
<1>5. CASE Lookup(m) # 0 /\ address # file[m].base
  <2>1. Relocated(m, address) = (file[m].base + Offset) + LoadedAt[m] - (address - (address - file[m].base))
    BY <1>2, <1>5 DEF Relocated, LoadBias
  <2> QED BY <1>1, <1>3, <1>5, <2>1
<1> QED BY <1>3, <1>4, <1>5

\* The symbol table of a mapped file is searched.
LEMMA SearchStep ==
    ASSUME ResolverInv, NEW m \in Modules, NEW address \in MapsTo, Search(m, address)
    PROVE  ResolverInv'
<1>1. /\ file' = file /\ regions' = regions /\ library' = library /\ named' = named
      /\ UNCHANGED given /\ lines' = lines /\ found' = found /\ failed' = failed
      /\ step = "search" /\ step' = IF result' = 0 THEN "file" ELSE "resolved"
      /\ m = Head(todo) /\ todo' = Tail(todo) /\ mapped' = mapped \ {<<m, address>>}
      /\ result' = IF Lookup(m) = 0 THEN 0 ELSE Relocated(m, address)
      /\ <<m, address>> \in mapped
  BY DEF Search, given
<1>2. todo # << >> /\ file[m].opens /\ mapped = {<<m, address>>}
  BY <1>1 DEF ResolverInv, OneMapped
<1>3. mapped' = {}
  BY <1>1, <1>2
<1>4. /\ file \in [Modules -> Files] /\ todo \in Seq(Modules) /\ todo \in Seq(Regions)
      /\ library \in Regions /\ regions \in Seq(Regions) /\ named \in BOOLEAN
      /\ Tail(todo) \in Seq(Modules)
  BY <1>2 DEF ResolverInv, ResolverTypeOK, Regions
<1>5. ResolverTypeOK'
  BY <1>1, <1>4 DEF ResolverInv, ResolverTypeOK
<1>6. OneMapped' /\ LinesAreThere' /\ MapsScanned'
  BY <1>1, <1>3 DEF ResolverInv, OneMapped, LinesAreThere, MapsScanned
<1>7. Lookup(m) = 0 <=> ~Defines(file, m)
  BY <1>2, <1>4, RelocatedFacts, SymbolResolverAssumption DEF Defines
<1>8. CASE Lookup(m) = 0
  <2>1. result' = 0 /\ step' = "file"
    BY <1>1, <1>8
  <2>2. FilesSearched'
    BY <1>1, <1>2, <1>7, <1>8, <2>1, PassedOver
  <2>3. Answered'
    BY <2>1 DEF Answered
  <2> QED BY <1>5, <1>6, <2>2, <2>3 DEF ResolverInv
<1>9. CASE Lookup(m) # 0
  <2>1. /\ result' = Relocated(m, address) /\ result' # 0 /\ step' = "resolved"
        /\ result' = LoadedAt[m] + Offset \/ file[m].base \in MapsTo
    BY <1>1, <1>4, <1>9, RelocatedFacts
  <2>2. Right(file', m, result')
    BY <1>1, <1>7, <1>9, <2>1 DEF Right
  <2>3. ASSUME failed = {} PROVE m = Wanted'
    <3>1. Wanted = IF Defines(file, library) THEN library ELSE FirstOf(file, regions)
      BY <1>4, WantedIs DEF Wanted
    <3>2. CASE named
      <4>1. todo = <<library>>
        BY <1>1, <1>2, <2>3, <3>2 DEF ResolverInv, FilesSearched
      <4>2. m = library
        BY <1>1, <4>1
      <4> QED BY <1>1, <1>7, <1>9, <3>1, <4>2 DEF Wanted
    <3>3. CASE ~named
      <4>1. ~Defines(file, library) /\ IsFirst(file, todo, FirstOf(file, regions))
        BY <1>1, <2>3, <3>3 DEF ResolverInv, FilesSearched
      <4>2. FirstOf(file, regions) = m
        BY <1>1, <1>2, <1>4, <1>7, <1>9, <4>1, FirstAtHead
      <4> QED BY <1>1, <3>1, <4>1, <4>2 DEF Wanted
    <3> QED BY <1>4, <3>2, <3>3
  <2>4. Answered'
    BY <1>1, <2>1, <2>2, <2>3 DEF Answered
  <2>5. FilesSearched'
    BY <1>1, <2>1 DEF ResolverInv, FilesSearched
  <2> QED BY <1>5, <1>6, <2>4, <2>5 DEF ResolverInv
<1> QED BY <1>8, <1>9

\* A file that is no ELF file is read for one: it may crash, and what is found
\* there is not the symbol.
LEMMA SearchArchiveStep ==
    ASSUME ResolverInv, NEW m \in Modules, NEW address \in MapsTo, SearchArchive(m, address)
    PROVE  ResolverInv'
<1>1. /\ file' = file /\ regions' = regions /\ library' = library /\ named' = named
      /\ lines' = lines /\ found' = found /\ step = "search" /\ <<m, address>> \in mapped
  BY DEF SearchArchive, given
<1>2. todo # << >> /\ mapped = {<<m, address>>} /\ result = 0
  BY <1>1 DEF ResolverInv, OneMapped, Answered
<1>3. todo \in Seq(Modules) /\ Tail(todo) \in Seq(Modules)
  BY <1>2 DEF ResolverInv, ResolverTypeOK
<1>4. /\ "archive" \in failed' /\ failed' # {} /\ todo' \in {todo, Tail(todo)}
      /\ "unload" \in failed' <=> "unload" \in failed
      /\ \/ step' = "crashed" /\ mapped' = mapped /\ result' = result
         \/ step' = "file" /\ mapped' = mapped \ {<<m, address>>} /\ result' = result
         \/ /\ step' = "resolved" /\ mapped' = mapped \ {<<m, address>>}
            /\ "misread" \in failed'
  BY DEF SearchArchive
<1>5. ResolverTypeOK'
  BY <1>1, <1>3, <1>4 DEF ResolverInv, ResolverTypeOK
<1>6. OneMapped'
  BY <1>2, <1>4 DEF OneMapped
<1>7. LinesAreThere' /\ MapsScanned' /\ FilesSearched'
  BY <1>1, <1>4 DEF ResolverInv, LinesAreThere, MapsScanned, FilesSearched
<1>8. Answered'
  BY <1>2, <1>4 DEF Answered
<1> QED BY <1>5, <1>6, <1>7, <1>8 DEF ResolverInv

\* A line of the maps that does not parse ends the process.
LEMMA ParseFailsStep ==
    ASSUME ResolverInv, ParseFails
    PROVE  ResolverInv'
<1>1. /\ file' = file /\ regions' = regions /\ library' = library /\ named' = named
      /\ lines' = lines /\ found' = found /\ todo' = todo /\ mapped' = mapped
      /\ result' = result /\ step = "line" /\ step' = "crashed" /\ failed' = failed \cup {"parse"}
  BY DEF ParseFails, given
<1>2. ResolverTypeOK'
  BY <1>1 DEF ResolverInv, ResolverTypeOK
<1>3. OneMapped' /\ LinesAreThere' /\ MapsScanned' /\ FilesSearched' /\ Answered'
  BY <1>1 DEF ResolverInv, OneMapped, LinesAreThere, MapsScanned, FilesSearched, Answered
<1> QED BY <1>2, <1>3 DEF ResolverInv

-----------------------------------------------------------------------------
(* The theorems about the resolver *)

\* The invariant above holds in every reachable state.
THEOREM ResolverInvariance == ResolverSpec => []ResolverInv
<1>1. ResolverInv /\ [ResolverNext]_resolverVars => ResolverInv'
  <2> SUFFICES ASSUME ResolverInv, [ResolverNext]_resolverVars PROVE ResolverInv'
    OBVIOUS
  <2>1. CASE ResolverNext
    BY <2>1, UnloadStep, OpenStep, EarlySteps, LineSteps, MapsReadStep, FileSteps, MapFileStep,
       SearchStep, SearchArchiveStep, ParseFailsStep DEF ResolverNext
  <2>2. CASE UNCHANGED resolverVars
    BY <2>2 DEF resolverVars, ResolverInv, ResolverTypeOK, OneMapped, LinesAreThere, MapsScanned,
       FilesSearched, Answered, Wanted
  <2> QED BY <2>1, <2>2
<1> QED BY <1>1, ResolverInitOK, PTL DEF ResolverSpec

\* The symbol is found whenever a file defines it and nothing fails and no archive
\* is opened before; no file stays mapped, and the search crashes only over an
\* unloaded module, a failing mmap, a library inside an archive or a line of the
\* maps that is too long.
THEOREM DefinedIsFound == ResolverSpec => []FoundIfDefined
<1>1. ResolverInv => FoundIfDefined
  <2> SUFFICES ASSUME ResolverInv PROVE FoundIfDefined
    OBVIOUS
  <2>1. Cardinality(mapped) <= 1
    <3>1. CASE mapped = {}
      BY <3>1, FS_EmptySet
    <3>2. CASE mapped # {}
      <4>1. PICK x : mapped = {x}
        BY <3>2 DEF ResolverInv, OneMapped
      <4>2. Cardinality({x}) = 1
        BY FS_Singleton
      <4> QED BY <4>1, <4>2
    <3> QED BY <3>1, <3>2
  <2>2. ASSUME step = "resolved", failed = {} PROVE result # 0 <=> Wanted # NoModule
    <3>1. result # 0 => Wanted \in Modules
      BY <2>2 DEF ResolverInv, Answered
    <3>2. result = 0 => Wanted = NoModule
      BY <2>2 DEF ResolverInv, Answered
    <3> QED BY <3>1, <3>2, SymbolResolverAssumption
  <2>3. (step = "resolved" => mapped = {}) /\ (step = "crashed" => failed \cap {"unload", "mmap", "archive", "parse"} # {})
    BY DEF ResolverInv, OneMapped, LinesAreThere
  <2> QED BY <2>1, <2>2, <2>3 DEF FoundIfDefined
<1> QED BY <1>1, ResolverInvariance, PTL

\* An address returned is the symbol's, in the module it should come from, unless
\* it was read from an archive.
THEOREM AddressIsRight == ResolverSpec => []AddressOfSymbol
<1>1. ResolverInv => AddressOfSymbol
  BY DEF ResolverInv, Answered, AddressOfSymbol, Right
<1> QED BY <1>1, ResolverInvariance, PTL


-----------------------------------------------------------------------------
(* The types of the hook library *)

Ops == {"plain", "jc8", "jmp8", "rel32", "jcc32"}
Targets == Hooks \cup Nat                 \* a chunk is its number
CodeByte == [by : Targets \cup {Null}, k : 0..Span]
Holding ==
    [kind : {"closure"}, by : Hooks] \cup [kind : {"bridge"}]
    \cup [kind : {"copy"}, fun : Funs, to : Funs \cup Targets, closure : Nat, used : Nat,
          misled : SUBSET Ops]
Chunk == [address : Int, size : Nat \ {0}, holds : Holding]
Entry == [address : Int, target : Targets, by : Hooks, relocated : Nat, saved : Seq(CodeByte)]

DobbyTypeOK ==
    /\ prologue \in Prologues
    /\ bytes \in [Funs -> [0..Span -> CodeByte]]
    /\ pages \in Seq(Nat) /\ chunks \in Seq(Chunk) /\ entries \in Seq(Entry)
    /\ op = Null \/ op \in Op

-----------------------------------------------------------------------------
(* Operators: what is copied, and where it is put *)

\* The lengths are numbers, and what is saved fits origin_chunk_.
LEMMA SpanType ==
    /\ Span \in Nat /\ JumpSize \in Nat /\ JumpSize <= Span /\ 0 < JumpSize /\ Span <= 64
BY DobbyAssumption DEF Span, JumpSize

-----------------------------------------------------------------------------
(* What is copied of a function's first instructions *)

\* The trampoline covers few enough bytes, and the copy of the instructions
\* under it fits the first chunk tried.
CopyFits(insns, copied) ==
    /\ \E n \in 0..Len(insns) : LengthOf(SubSeq(insns, 1, n)) >= JumpSize
    /\ LengthOf(copied) \in 0..Span
    /\ EmittedLength(copied) \in 1..IF Arm THEN PageSize ELSE 32
    /\ \A n \in 0..Len(copied) :
         LengthOf(SubSeq(copied, 1, n)) \in Nat /\ EmittedLength(SubSeq(copied, 1, n)) \in Nat

\* The lengths of instructions, as they are and as they are emitted.
Lens(s) == [n \in DOMAIN s |-> s[n].len]
Emits(s) == [n \in DOMAIN s |-> Emitted(s[n])]

\* An instruction is at least a byte long, and its copy at most three times as
\* long.
LEMMA EmittedFacts ==
    ASSUME NEW i \in Insn
    PROVE  /\ i.len \in 1..15 /\ Emitted(i) \in 1..15
           /\ Emitted(i) <= 3 * i.len /\ (Arm => Emitted(i) = i.len)
<1>1. i.len \in 1..15 /\ i.op \in Kinds /\ (i.op \in {"jc8", "jmp8"} => i.len >= 2)
  BY DEF Insn
<1>2. CASE i.op = "jc8"
  BY <1>1, <1>2 DEF Emitted, Kinds
<1>3. CASE i.op = "jmp8"
  BY <1>1, <1>3 DEF Emitted, Kinds
<1>4. CASE i.op \notin {"jc8", "jmp8"}
  BY <1>1, <1>4 DEF Emitted
<1> QED BY <1>2, <1>3, <1>4

\* What the first n instructions add up to, copied or not.
LEMMA LengthFacts ==
    ASSUME NEW s \in Seq(Insn)
    PROVE  LET d == Offsets(Lens(s))
               e == Offsets(Emits(s))
           IN  /\ d \in [0..Len(s) -> Nat] /\ e \in [0..Len(s) -> Nat] /\ d[0] = 0 /\ e[0] = 0
               /\ \A n \in 1..Len(s) :
                    d[n] = d[n - 1] + s[n].len /\ e[n] = e[n - 1] + Emitted(s[n])
               /\ \A n \in 0..Len(s) : /\ LengthOf(SubSeq(s, 1, n)) = d[n]
                                       /\ EmittedLength(SubSeq(s, 1, n)) = e[n] + JumpSize
<1> DEFINE N == Len(s)
           a == Lens(s)
           b == Emits(s)
<1>1. N \in Nat /\ DOMAIN s = 1..N /\ \A n \in 1..N : s[n] \in Insn
  OBVIOUS
<1>2. \A n \in 1..N : s[n].len \in Nat /\ Emitted(s[n]) \in Nat
  <2> SUFFICES ASSUME NEW n \in 1..N PROVE s[n].len \in Nat /\ Emitted(s[n]) \in Nat
    OBVIOUS
  <2>1. s[n].len \in 1..15 /\ Emitted(s[n]) \in 1..15
    BY <1>1, EmittedFacts
  <2>2. \A k \in 1..15 : k \in Nat
    OBVIOUS
  <2> QED BY <2>1, <2>2
<1>3. a \in Seq(Nat) /\ Len(a) = N /\ \A n \in 1..N : a[n] = s[n].len
  BY <1>1, <1>2 DEF Lens
<1>4. b \in Seq(Nat) /\ Len(b) = N /\ \A n \in 1..N : b[n] = Emitted(s[n])
  BY <1>1, <1>2 DEF Emits
<1>5. a \in Seq(Int) /\ b \in Seq(Int)
  BY <1>3, <1>4
<1>6. ASSUME NEW n \in 0..N
      PROVE  /\ LengthOf(SubSeq(s, 1, n)) = Offsets(a)[n]
             /\ EmittedLength(SubSeq(s, 1, n)) = Offsets(b)[n] + JumpSize
  <2> DEFINE s2 == SubSeq(s, 1, n)
             a2 == [k \in DOMAIN s2 |-> s2[k].len]
             b2 == [k \in DOMAIN s2 |-> Emitted(s2[k])]
  <2>1. s2 \in Seq(Insn) /\ DOMAIN s2 = 1..n /\ \A k \in 1..n : s2[k] = s[k]
    BY FirstN
  <2> HIDE DEF s2
  <2>2. n \in Nat /\ n <= N /\ \A k \in 1..n : k \in 1..N
    BY <1>1
  <2>3. a2 \in Seq(Int) /\ Len(a2) = n /\ \A k \in 1..n : a2[k] = a[k]
    BY <1>2, <1>3, <2>1, <2>2
  <2>4. b2 \in Seq(Int) /\ Len(b2) = n /\ \A k \in 1..n : b2[k] = b[k]
    BY <1>2, <1>4, <2>1, <2>2
  <2>5. LengthOf(s2) = Offsets(a2)[Len(a2)] /\ EmittedLength(s2) = Offsets(b2)[Len(b2)] + JumpSize
    BY DEF LengthOf, EmittedLength, Total
  <2> HIDE DEF a2, b2, a, b
  <2>6. n \in 0..n
    BY <2>2
  <2>7. \A k \in 0..n : Offsets(a2)[k] = Offsets(a)[k]
    <3>1. n <= Len(a2) /\ n <= Len(a)
      BY <1>3, <2>2, <2>3
    <3> QED BY <1>5, <2>2, <2>3, <3>1, SameOffsets
  <2>8. \A k \in 0..n : Offsets(b2)[k] = Offsets(b)[k]
    <3>1. n <= Len(b2) /\ n <= Len(b)
      BY <1>4, <2>2, <2>4
    <3> QED BY <1>5, <2>2, <2>4, <3>1, SameOffsets
  <2> QED BY <2>3, <2>4, <2>5, <2>6, <2>7, <2>8 DEF s2
<1> HIDE DEF a, b
<1>7. Offsets(a) \in [0..N -> Nat] /\ Offsets(b) \in [0..N -> Nat]
  BY <1>3, <1>4, OffsetsNat
<1>8. Offsets(a)[0] = 0 /\ \A n \in 1..N : Offsets(a)[n] = Offsets(a)[n - 1] + a[n]
  BY <1>3, <1>5, OffsetsFacts
<1>9. Offsets(b)[0] = 0 /\ \A n \in 1..N : Offsets(b)[n] = Offsets(b)[n - 1] + b[n]
  BY <1>4, <1>5, OffsetsFacts
<1> QED BY <1>3, <1>4, <1>6, <1>7, <1>8, <1>9 DEF a, b

\* Enough instructions are copied to cover the trampoline and no more; their
\* copy and the jump behind it fit into 32 bytes.
LEMMA ShortestFits ==
    ASSUME NEW s \in Seq(Insn), LengthOf(s) >= JumpSize
    PROVE  CopyFits(s, Shortest(s))
<1> DEFINE N == Len(s)
           d == Offsets(Lens(s))
           e == Offsets(Emits(s))
           I == {n \in 0..N : LengthOf(SubSeq(s, 1, n)) >= JumpSize}
           j == Min(I)
           v == Shortest(s)
<1>1. N \in Nat /\ DOMAIN s = 1..N /\ \A n \in 1..N : s[n] \in Insn
  OBVIOUS
<1>2. JumpSize \in {5, 8} /\ (Arm => JumpSize = 8) /\ (~Arm => JumpSize = 5)
  BY DEF JumpSize
<1>3. /\ d \in [0..N -> Nat] /\ e \in [0..N -> Nat] /\ d[0] = 0 /\ e[0] = 0
      /\ \A n \in 1..N : d[n] = d[n - 1] + s[n].len /\ e[n] = e[n - 1] + Emitted(s[n])
      /\ \A n \in 0..N : /\ LengthOf(SubSeq(s, 1, n)) = d[n]
                         /\ EmittedLength(SubSeq(s, 1, n)) = e[n] + JumpSize
  BY LengthFacts
<1> HIDE DEF d, e
<1>4. N \in I
  <2>1. SubSeq(s, 1, N) = s
    OBVIOUS
  <2>2. N \in 0..N
    BY <1>1
  <2> QED BY <2>1, <2>2
<1>5. j \in I /\ \A n \in I : j <= n
  <2>1. I \in SUBSET Nat /\ I # {}
    BY <1>1, <1>4
  <2> HIDE DEF I
  <2> QED BY <2>1, MinOfNats
<1>6. v = SubSeq(s, 1, j)
  BY DEF Shortest
<1> HIDE DEF j, v
<1>7. j \in 1..N /\ d[j] >= JumpSize /\ d[j - 1] < JumpSize
  <2>1. j \in 0..N /\ d[j] >= JumpSize
    BY <1>3, <1>5
  <2>2. j # 0
    BY <1>2, <1>3, <2>1
  <2>3. j - 1 \in 0..N /\ ~(j <= j - 1)
    BY <1>1, <2>1, <2>2
  <2>4. ~(d[j - 1] >= JumpSize)
    BY <1>3, <1>5, <2>3
  <2>5. d[j - 1] \in Nat
    BY <1>3, <2>3
  <2> QED BY <1>2, <2>1, <2>2, <2>4, <2>5
<1> HIDE DEF I
<1>8. ASSUME NEW n \in 1..N
      PROVE  /\ s[n].len \in 1..15 /\ Emitted(s[n]) \in 1..15
             /\ Emitted(s[n]) <= 3 * s[n].len /\ (Arm => Emitted(s[n]) = s[n].len)
             /\ d[n] = d[n - 1] + s[n].len /\ e[n] = e[n - 1] + Emitted(s[n])
             /\ d[n - 1] \in Nat /\ e[n - 1] \in Nat
  <2>1. s[n] \in Insn /\ n - 1 \in 0..N
    BY <1>1
  <2> QED BY <1>3, <2>1, EmittedFacts
<1>9. e[j - 1] <= 3 * d[j - 1]
  <2> DEFINE G == {n \in 0..N : e[n] <= 3 * d[n]}
  <2>1. 0 \in G
    BY <1>1, <1>3
  <2>2. ASSUME NEW n \in 1..N, n - 1 \in G PROVE n \in G
    <3>1. e[n - 1] <= 3 * d[n - 1] /\ n \in 0..N
      BY <1>1, <2>2
    <3> DEFINE x == s[n].len
               y == Emitted(s[n])
               p == d[n - 1]
               q == e[n - 1]
    <3>2. /\ x \in Nat /\ y \in Nat /\ y <= 3 * x /\ p \in Nat /\ q \in Nat
          /\ d[n] = p + x /\ e[n] = q + y /\ q <= 3 * p
      <4>1. x \in 1..15 /\ y \in 1..15
        BY <1>8
      <4>2. x \in Nat /\ y \in Nat
        BY <4>1
      <4> QED BY <1>8, <3>1, <4>2
    <3> HIDE DEF x, y, p, q
    <3>3. q + y <= 3 * (p + x)
      BY <3>2
    <3> QED BY <3>1, <3>2, <3>3
  <2> HIDE DEF G
  <2>3. \A n \in 0..N : n \in G
    BY <1>1, <2>1, <2>2, UpTo
  <2>4. j - 1 \in 0..N
    BY <1>1, <1>7
  <2> QED BY <2>3, <2>4 DEF G
<1>10. ASSUME Arm PROVE e[j - 1] = d[j - 1]
  <2> DEFINE G == {n \in 0..N : e[n] = d[n]}
  <2>1. 0 \in G
    BY <1>1, <1>3
  <2>2. ASSUME NEW n \in 1..N, n - 1 \in G PROVE n \in G
    <3>1. e[n - 1] = d[n - 1] /\ n \in 0..N
      BY <1>1, <2>2
    <3> QED BY <1>8, <1>10, <3>1
  <2> HIDE DEF G
  <2>3. \A n \in 0..N : n \in G
    BY <1>1, <2>1, <2>2, UpTo
  <2>4. j - 1 \in 0..N
    BY <1>1, <1>7
  <2> QED BY <2>3, <2>4 DEF G
<1>11. LengthOf(v) = d[j] /\ EmittedLength(v) = e[j] + JumpSize
  <2>1. j \in 0..N
    BY <1>1, <1>7
  <2> QED BY <1>3, <1>6, <2>1
<1> DEFINE x == s[j].len
           y == Emitted(s[j])
           p == d[j - 1]
           q == e[j - 1]
           z == JumpSize
<1>12. /\ x \in 1..15 /\ y \in 1..15 /\ p \in Nat /\ q \in Nat /\ z \in {5, 8} /\ p < z
       /\ q <= 3 * p /\ d[j] = p + x /\ e[j] = q + y
  BY <1>2, <1>7, <1>8, <1>9
<1>13. LengthOf(v) \in 0..Span /\ EmittedLength(v) \in 1..IF Arm THEN PageSize ELSE 32
  <2>1. CASE Arm
    <3>1. z = 8 /\ q = p
      BY <1>2, <1>10, <2>1
    <3> HIDE DEF x, y, p, q, z
    <3>2. p + x \in 0..z + 14 /\ q + y + z \in 1..32
      BY <1>12, <3>1
    <3>3. 1..32 \subseteq 1..PageSize
      <4>1. PageSize \in Nat /\ 32 <= PageSize
        BY DobbyAssumption
      <4> QED BY <4>1
    <3> QED BY <1>11, <1>12, <2>1, <3>2, <3>3 DEF Span, z
  <2>2. CASE ~Arm
    <3>1. z = 5
      BY <1>2, <2>2
    <3> HIDE DEF x, y, p, q, z
    <3>2. p + x \in 0..z + 14 /\ q + y + z \in 1..32
      BY <1>12, <3>1
    <3> QED BY <1>11, <1>12, <2>2, <3>2 DEF Span, z
  <2> QED BY <2>1, <2>2
<1>14. \A n \in 0..Len(v) : /\ LengthOf(SubSeq(v, 1, n)) \in Nat
                            /\ EmittedLength(SubSeq(v, 1, n)) \in Nat
  <2>1. v \in Seq(Insn)
    BY <1>6, <1>7, FirstN
  <2>2. /\ Offsets(Lens(v)) \in [0..Len(v) -> Nat] /\ Offsets(Emits(v)) \in [0..Len(v) -> Nat]
        /\ \A n \in 0..Len(v) :
             /\ LengthOf(SubSeq(v, 1, n)) = Offsets(Lens(v))[n]
             /\ EmittedLength(SubSeq(v, 1, n)) = Offsets(Emits(v))[n] + JumpSize
    BY <2>1, LengthFacts
  <2> QED BY <1>2, <2>2
<1>15. \E n \in 0..N : LengthOf(SubSeq(s, 1, n)) >= JumpSize
  BY <1>4 DEF I
<1> QED BY <1>13, <1>14, <1>15 DEF CopyFits, v

\* The instructions under the trampoline are some of the first ones.
LEMMA ShortestFacts ==
    ASSUME NEW s \in Seq(Insn), \E n \in 0..Len(s) : LengthOf(SubSeq(s, 1, n)) >= JumpSize
    PROVE  /\ Shortest(s) \in Seq(Insn)
           /\ \E n \in 0..Len(s) : /\ DOMAIN Shortest(s) = 1..n
                                   /\ \A i \in 1..n : Shortest(s)[i] = s[i]
<1> DEFINE I == {n \in 0..Len(s) : LengthOf(SubSeq(s, 1, n)) >= JumpSize}
           m == Min(I)
<1>1. I \in SUBSET Nat /\ I # {}
  OBVIOUS
<1>2. m \in I
  BY <1>1, MinOfNats
<1> HIDE DEF I
<1>3. m \in 0..Len(s)
  BY <1>2 DEF I
<1>4. Shortest(s) = SubSeq(s, 1, m)
  BY DEF Shortest, I
<1> HIDE DEF m
<1> QED BY <1>3, <1>4, FirstN

\* The code at f is one of the ways it may begin, or the jump of a hook.
LEMMA InstructionsType ==
    ASSUME DobbyTypeOK, NEW f \in Funs
    PROVE  /\ Instructions(f) \in Seq(Insn)
           /\ CopyFits(Instructions(f), Shortest(Instructions(f)))
           /\ Instructions(f) = prologue[f] \/ Instructions(f) = HookJump
<1>1. prologue[f] \in Seq(Insn) /\ LengthOf(prologue[f]) >= JumpSize
  BY DobbyAssumption DEF DobbyTypeOK
<1>2. HookJump \in Seq(Insn) /\ LengthOf(HookJump) >= JumpSize
  <2> DEFINE i == [op |-> "rel32", len |-> JumpSize, offset |-> 0]
             l == [n \in DOMAIN HookJump |-> HookJump[n].len]
  <2>1. JumpSize \in 1..15 /\ i \in Insn
    BY DEF Insn, Kinds, JumpSize
  <2>2. HookJump = <<i>> /\ DOMAIN HookJump = 1..1 /\ HookJump[1] = i /\ HookJump \in Seq(Insn)
    BY <2>1 DEF HookJump
  <2>3. l \in Seq(Int) /\ Len(l) = 1 /\ l[1] = JumpSize
    BY <2>1, <2>2
  <2>4. LengthOf(HookJump) = Offsets(l)[1]
    BY <2>3 DEF LengthOf, Total
  <2> HIDE DEF l
  <2>5. Offsets(l)[0] = 0 /\ Offsets(l)[1] = Offsets(l)[1 - 1] + l[1]
    BY <2>3, OffsetsFacts
  <2> QED BY <2>1, <2>2, <2>3, <2>4, <2>5
<1> QED BY <1>1, <1>2, ShortestFits DEF Instructions

\* What is copied of f, and how long it is.
LEMMA CoveredFacts ==
    ASSUME DobbyTypeOK, NEW f \in Funs
    PROVE  /\ Covered(f) \in Seq(Insn)
           /\ SavedLength(f) \in 0..Span
           /\ EmittedLength(Covered(f)) \in Nat /\ CopySize(f) \in 1..PageSize
           /\ EmittedLength(Covered(f)) <= CopySize(f)
<1> DEFINE s == Instructions(f)
<1>1. s \in Seq(Insn) /\ CopyFits(s, Shortest(s))
  BY InstructionsType
<1> HIDE DEF s
<1>2. /\ \E n \in 0..Len(s) : LengthOf(SubSeq(s, 1, n)) >= JumpSize
      /\ LengthOf(Shortest(s)) \in 0..Span
      /\ EmittedLength(Shortest(s)) \in 1..IF Arm THEN PageSize ELSE 32
  BY <1>1 DEF CopyFits
<1>3. Covered(f) = Shortest(s)
  BY DEF Covered, s
<1>4. Shortest(s) \in Seq(Insn)
  BY <1>1, <1>2, ShortestFacts
<1>5. SavedLength(f) \in 0..Span
  BY <1>2, <1>3, SpanType DEF SavedLength
<1>6. /\ EmittedLength(Covered(f)) \in Nat /\ CopySize(f) \in 1..PageSize
      /\ EmittedLength(Covered(f)) <= CopySize(f)
  BY <1>2, <1>3, DobbyAssumption DEF CopySize
<1> QED BY <1>3, <1>4, <1>5, <1>6

\* Pages do not overlap.
LEMMA PagesApart ==
    ASSUME NEW p \in Nat, NEW q \in Nat, p < q
    PROVE  PageAt(p) \in Int /\ PageAt(q) \in Int /\ PageAt(p) + PageSize <= PageAt(q)
<1> DEFINE P == PageSize
<1>1. P \in Nat /\ ArenaAt \in Int
  BY DobbyAssumption
<1> HIDE DEF P
<1> DEFINE d == q - p
<1>2. d \in Nat /\ 1 <= d /\ q - 1 = (p - 1) + d
  OBVIOUS
<1>3. d * P >= P
  <2>1. d * P = (d - 1) * P + P /\ d - 1 \in Nat
    BY <1>1, <1>2
  <2>2. (d - 1) * P >= 0
    BY <1>1, <2>1
  <2> QED BY <1>1, <1>2, <2>1, <2>2
<1>4. (q - 1) * P = (p - 1) * P + d * P
  BY <1>1, <1>2
<1> QED BY <1>1, <1>2, <1>3, <1>4 DEF PageAt, P

-----------------------------------------------------------------------------
(* The arena *)

Apart(c, d) == c.address + c.size <= d.address \/ d.address + d.size <= c.address
\* Below the cursor of page p.
OnPage(c, p, cursors) ==
    PageAt(p) <= c.address /\ c.address + c.size <= PageAt(p) + cursors[p]
\* The second conjunct of ChunksHoldTheirCode, and what makes it inductive: a
\* chunk is handed out at the cursor, and all before it are below the cursor.
Laid(cursors, cs) ==
    /\ \A p \in 1..Len(cursors) : cursors[p] <= PageSize
    /\ \A c \in 1..Len(cs) : \E p \in 1..Len(cursors) : OnPage(cs[c], p, cursors)
    /\ \A c, d \in 1..Len(cs) : c < d => Apart(cs[c], cs[d])

\* The saved bytes fit origin_chunk_, and the code copied its chunk.
Fits(cs, es) ==
    /\ \A c \in 1..Len(cs) : cs[c].holds.kind = "copy" => cs[c].holds.used <= cs[c].size
    /\ \A i \in 1..Len(es) : Len(es[i].saved) <= 64

ArenaInv == DobbyTypeOK /\ Laid(pages, chunks) /\ Fits(chunks, entries)

\* A page taken by AllocateChunk has the room asked for.
LEMMA PageForFacts ==
    ASSUME pages \in Seq(Nat), \A p \in 1..Len(pages) : pages[p] <= PageSize,
           NEW size \in 1..PageSize
    PROVE  /\ PageFor(size) \in 1..Len(pages) + 1
           /\ CursorOf(PageFor(size)) \in Nat /\ CursorOf(PageFor(size)) + size <= PageSize
           /\ PageFor(size) \in 1..Len(pages) => CursorOf(PageFor(size)) = pages[PageFor(size)]
<1> DEFINE n == Len(pages)
<1>1. n \in Nat /\ DOMAIN pages = 1..n /\ PageSize \in Nat /\ size \in Nat
  BY DobbyAssumption
<1>2. CASE Room(size) # {}
  <2>1. Room(size) \in SUBSET Nat
    BY <1>1 DEF Room
  <2>2. PageFor(size) \in Room(size)
    BY <1>2, <2>1, MinOfNats DEF PageFor
  <2>3. PageFor(size) \in 1..n /\ pages[PageFor(size)] + size < PageSize
    BY <1>1, <2>2 DEF Room
  <2>4. pages[PageFor(size)] \in Nat
    BY <2>3
  <2> QED BY <1>1, <2>3, <2>4 DEF CursorOf
<1>3. CASE Room(size) = {}
  <2>1. PageFor(size) = n + 1 /\ n + 1 \notin 1..n /\ CursorOf(n + 1) = 0
    BY <1>1, <1>3 DEF PageFor, CursorOf
  <2> QED BY <1>1, <2>1
<1> QED BY <1>2, <1>3

\* The cursors after it.
Moved(q, p, top) == [i \in DOMAIN q \cup {p} |-> IF i = p THEN top ELSE q[i]]

\* The cursors after an allocation: one has moved, or there is one more.
LEMMA NewCursors ==
    ASSUME NEW q \in Seq(Nat), NEW p \in 1..Len(q) + 1, NEW new \in Nat
    PROVE  LET r == Moved(q, p, new)
           IN  /\ r \in Seq(Nat) /\ r[p] = new /\ p \in 1..Len(r)
               /\ \A i \in 1..Len(q) : i \in 1..Len(r) /\ (i # p => r[i] = q[i])
               /\ \A i \in 1..Len(r) : i = p \/ (i \in 1..Len(q) /\ r[i] = q[i])
<1> DEFINE n == Len(q)
           m == IF p \in 1..n THEN n ELSE n + 1
           r == [i \in DOMAIN q \cup {p} |-> IF i = p THEN new ELSE q[i]]
<1>1. n \in Nat /\ DOMAIN q = 1..n /\ m \in Nat
  OBVIOUS
<1>2. DOMAIN q \cup {p} = 1..m
  BY <1>1
<1>3. r = [i \in 1..m |-> IF i = p THEN new ELSE q[i]]
  BY <1>2
<1>4. \A i \in 1..m : i # p => i \in 1..n
  BY <1>1
<1>5. \A i \in 1..m : (IF i = p THEN new ELSE q[i]) \in Nat
  BY <1>1, <1>4
<1>6. r \in [1..m -> Nat]
  BY <1>3, <1>5
<1> HIDE DEF r
<1>7. r \in Seq(Nat) /\ Len(r) = m
  <2> HIDE DEF m
  <2> QED BY <1>1, <1>6, IsASeq, LenProperties
<1>8. p \in 1..m /\ 1..n \subseteq 1..m
  BY <1>1
<1>9. \A i \in 1..m : r[i] = IF i = p THEN new ELSE q[i]
  BY <1>3 DEF r
<1>10. /\ r[p] = new /\ p \in 1..Len(r)
       /\ \A i \in 1..n : i \in 1..Len(r) /\ (i # p => r[i] = q[i])
       /\ \A i \in 1..Len(r) : i = p \/ (i \in 1..n /\ r[i] = q[i])
  BY <1>4, <1>7, <1>8, <1>9
<1> QED BY <1>7, <1>10 DEF r, Moved

\* Handing out a chunk keeps the arena in order.
LEMMA AllocateKeepsOrder ==
    ASSUME pages \in Seq(Nat), chunks \in Seq(Chunk), Laid(pages, chunks),
           NEW size \in 1..PageSize, NEW holds \in Holding, AllocateChunk(size, holds)
    PROVE  /\ pages' \in Seq(Nat) /\ chunks' \in Seq(Chunk) /\ Laid(pages', chunks')
           /\ Len(chunks') = Len(chunks) + 1
           /\ \A c \in 1..Len(chunks) : chunks'[c] = chunks[c]
           /\ chunks'[Len(chunks) + 1].holds = holds
           /\ chunks'[Len(chunks) + 1].size = size
<1> DEFINE p == PageFor(size)
           cur == CursorOf(p)
           new == [address |-> AddressFor(size), size |-> size, holds |-> holds]
<1>1. p \in 1..Len(pages) + 1 /\ cur \in Nat /\ cur + size <= PageSize
      /\ (p \in 1..Len(pages) => cur = pages[p])
  BY PageForFacts DEF Laid
<1>2. size \in Nat \ {0} /\ PageSize \in Nat /\ ArenaAt \in Int /\ cur + size \in Nat
  BY <1>1, DobbyAssumption
<1>3. /\ pages' = [i \in DOMAIN pages \cup {p} |-> IF i = p THEN cur + size ELSE pages[i]]
      /\ chunks' = Append(chunks, new)
  BY DEF AllocateChunk
<1>4. new.address = PageAt(p) + cur
  BY DEF AddressFor
<1> HIDE DEF p, cur
<1> DEFINE top == cur + size
<1> HIDE DEF top
<1>21. top \in Nat /\ top = cur + size
  BY <1>2 DEF top
<1>22. LET r == Moved(pages, p, top)
       IN  /\ r \in Seq(Nat) /\ r[p] = top /\ p \in 1..Len(r)
           /\ \A i \in 1..Len(pages) : i \in 1..Len(r) /\ (i # p => r[i] = pages[i])
           /\ \A i \in 1..Len(r) : i = p \/ (i \in 1..Len(pages) /\ r[i] = pages[i])
  BY <1>1, <1>21, NewCursors
<1>23. pages' = Moved(pages, p, top)
  BY <1>3, <1>21 DEF Moved
<1>5. /\ pages' \in Seq(Nat) /\ pages'[p] = cur + size /\ p \in 1..Len(pages')
      /\ \A i \in 1..Len(pages) : i \in 1..Len(pages') /\ (i # p => pages'[i] = pages[i])
      /\ \A i \in 1..Len(pages') : i = p \/ (i \in 1..Len(pages) /\ pages'[i] = pages[i])
  BY <1>21, <1>22, <1>23
<1>6. PageAt(p) \in Int
  BY <1>1, <1>2 DEF PageAt
<1>7. new \in Chunk
  BY <1>1, <1>2, <1>4, <1>6 DEF Chunk
<1> DEFINE n == Len(chunks)
<1>8. /\ chunks' \in Seq(Chunk) /\ Len(chunks') = n + 1 /\ chunks'[n + 1] = new
      /\ \A c \in 1..n : chunks'[c] = chunks[c]
  BY <1>3, <1>7, PushFacts
<1>9. new.holds = holds /\ new.size = size
  OBVIOUS
<1>10. n \in Nat /\ \A c \in 1..n : chunks[c] \in Chunk
  OBVIOUS
<1> HIDE DEF new, n
<1>11. \A i \in 1..Len(pages') : pages'[i] <= PageSize
  BY <1>1, <1>5 DEF Laid
<1>12. ASSUME NEW c \in 1..n
       PROVE  /\ \E i \in 1..Len(pages') : OnPage(chunks[c], i, pages')
              /\ Apart(chunks[c], new)
  <2>1. PICK q \in 1..Len(pages) : OnPage(chunks[c], q, pages)
    BY DEF Laid, n
  <2>2. pages[q] \in Nat /\ pages[q] <= PageSize /\ q \in Nat /\ p \in Nat
    BY <1>1 DEF Laid
  <2>3. chunks[c].address \in Int /\ chunks[c].size \in Nat
    BY <1>10 DEF Chunk
  <2>4. PageAt(q) \in Int
    BY <1>2, <2>2 DEF PageAt
  <2> DEFINE low == chunks[c].address
             high == low + chunks[c].size
  <2>7. /\ low \in Int /\ high \in Int
        /\ PageAt(q) <= low /\ high <= PageAt(q) + pages[q]
    BY <2>1, <2>3 DEF OnPage
  <2>8. \A r : OnPage(chunks[c], q, r) <=> PageAt(q) <= low /\ high <= PageAt(q) + r[q]
    BY DEF OnPage
  <2>9. /\ Apart(chunks[c], new) <=> high <= new.address \/ new.address + new.size <= low
        /\ new.address = PageAt(p) + cur /\ new.size = size
    BY <1>4, <1>9 DEF Apart
  <2> HIDE DEF low, high
  <2>5. CASE q = p
    <3>1. pages[q] = cur /\ pages'[q] = cur + size
      BY <1>1, <1>5, <2>5
    <3>2. OnPage(chunks[c], q, pages')
      BY <1>1, <1>2, <2>4, <2>7, <2>8, <3>1
    <3>3. high <= new.address
      BY <2>5, <2>7, <2>9, <3>1
    <3> QED BY <1>5, <2>5, <2>9, <3>2, <3>3
  <2>6. CASE q # p
    <3>1. OnPage(chunks[c], q, pages') /\ q \in 1..Len(pages')
      BY <1>5, <2>1, <2>6 DEF OnPage
    <3>2. CASE q < p
      <4>1. PageAt(q) + PageSize <= PageAt(p)
        BY <2>2, <3>2, PagesApart
      <4>2. high <= PageAt(q) + pages[q] /\ pages[q] <= PageSize /\ pages[q] \in Nat
        BY <2>2, <2>7
      <4>3. high <= PageAt(p)
        BY <1>2, <1>6, <2>4, <2>7, <4>1, <4>2, SMTT(30)
      <4>4. high <= new.address
        BY <1>1, <1>6, <2>7, <2>9, <4>3
      <4> QED BY <2>9, <3>1, <4>4
    <3>3. CASE p < q
      <4>1. PageAt(p) + PageSize <= PageAt(q)
        BY <2>2, <3>3, PagesApart
      <4>2. new.address + new.size <= low
        BY <1>1, <1>2, <1>6, <2>2, <2>4, <2>7, <2>9, <4>1, SMTT(20)
      <4> QED BY <2>9, <3>1, <4>2
    <3> QED BY <2>2, <2>6, <3>2, <3>3
  <2> QED BY <2>5, <2>6
<1>13. OnPage(new, p, pages')
  BY <1>1, <1>2, <1>4, <1>5, <1>6, <1>9 DEF OnPage
<1>14. \A c \in 1..n + 1 : c \in 1..n \/ c = n + 1
  BY <1>10
<1>15. \A c \in 1..Len(chunks') : \E i \in 1..Len(pages') : OnPage(chunks'[c], i, pages')
  BY <1>5, <1>8, <1>12, <1>13, <1>14
<1>16. ASSUME NEW c \in 1..Len(chunks'), NEW d \in 1..Len(chunks'), c < d
       PROVE  Apart(chunks'[c], chunks'[d])
  <2>1. c \in 1..n
    BY <1>8, <1>10, <1>16
  <2>2. CASE d \in 1..n
    BY <1>8, <1>16, <2>1, <2>2 DEF Laid, n
  <2>3. CASE d = n + 1
    BY <1>8, <1>12, <2>1, <2>3
  <2> QED BY <1>8, <1>14, <2>2, <2>3
<1>17. Laid(pages', chunks')
  BY <1>11, <1>15, <1>16 DEF Laid
<1> QED BY <1>5, <1>8, <1>9, <1>17 DEF n

\* FindHookEntry gives the first entry of an address.
LEMMA FindFacts ==
    ASSUME entries \in Seq(Entry), NEW address
    PROVE  /\ Find(address) \in 0..Len(entries)
           /\ Find(address) = 0 => \A i \in 1..Len(entries) : entries[i].address # address
           /\ Find(address) # 0 =>
                /\ Find(address) \in 1..Len(entries)
                /\ entries[Find(address)] \in Entry
                /\ entries[Find(address)].address = address
                /\ \A i \in 1..Len(entries) : i < Find(address) => entries[i].address # address
<1> DEFINE I == {i \in 1..Len(entries) : entries[i].address = address}
<1>1. Find(address) = IF I # {} THEN Min(I) ELSE 0
  BY DEF Find, SelectInSeq
<1>2. I \in SUBSET Nat /\ Len(entries) \in Nat
  OBVIOUS
<1>3. CASE I = {}
  BY <1>1, <1>2, <1>3
<1>4. CASE I # {}
  <2>1. Min(I) \in I /\ \A i \in I : Min(I) <= i
    BY <1>2, <1>4, MinOfNats
  <2> DEFINE m == Min(I)
  <2>2. m \in 1..Len(entries) /\ entries[m].address = address
    BY <2>1
  <2>3. \A i \in 1..Len(entries) : i < m => entries[i].address # address
    BY <2>1, <2>2
  <2>4. Find(address) = m
    BY <1>1, <1>4
  <2> HIDE DEF m, I
  <2> QED BY <1>2, <2>2, <2>3, <2>4
<1> QED BY <1>3, <1>4

\* Patching keeps bytes bytes.
LEMMA CodePatchType ==
    ASSUME bytes \in [Funs -> [0..Span -> CodeByte]], NEW f \in Funs, NEW from \in Int,
           NEW code \in Seq(CodeByte), CodePatch(f, from, code)
    PROVE  bytes' \in [Funs -> [0..Span -> CodeByte]]
<1> DEFINE n == Len(code)
           b == [k \in 0..Span |-> IF k \in from..from + n - 1 THEN code[k - from + 1]
                                   ELSE bytes[f][k]]
<1>1. n \in Nat /\ \A i \in 1..n : code[i] \in CodeByte
  OBVIOUS
<1>2. bytes' = [bytes EXCEPT ![f] = b]
  BY DEF CodePatch
<1> HIDE DEF n
<1>3. ASSUME NEW k \in 0..Span
      PROVE  (IF k \in from..from + n - 1 THEN code[k - from + 1] ELSE bytes[f][k]) \in CodeByte
  <2>1. k \in Int
    BY SpanType
  <2>2. k \in from..from + n - 1 => k - from + 1 \in 1..n
    BY <1>1, <2>1
  <2> QED BY <1>1, <2>2
<1>4. b \in [0..Span -> CodeByte]
  BY <1>3
<1> HIDE DEF b
<1> QED BY <1>2, <1>4

\* A jump to a target is bytes.
LEMMA TrampolineType ==
    ASSUME NEW target \in Targets
    PROVE  /\ Trampoline(target) \in Seq(CodeByte) /\ Len(Trampoline(target)) = JumpSize
           /\ \A k \in 1..JumpSize : Trampoline(target)[k] = [by |-> target, k |-> k]
<1>1. \A k \in 1..JumpSize : [by |-> target, k |-> k] \in CodeByte
  BY SpanType DEF CodeByte
<1>2. Trampoline(target) \in [1..JumpSize -> CodeByte]
  BY <1>1 DEF Trampoline
<1>3. Trampoline(target) \in Seq(CodeByte) /\ Len(Trampoline(target)) = JumpSize
  BY <1>2, SpanType, IsASeq, LenProperties
<1> QED BY <1>3 DEF Trampoline

\* A new entry is put before the others.
LEMMA AddHookEntryFacts ==
    ASSUME entries \in Seq(Entry), op \in Op, NEW relocated \in Nat, NEW saved \in Seq(CodeByte),
           AddHookEntry(relocated, saved)
    PROVE  /\ entries' \in Seq(Entry) /\ Len(entries') = Len(entries) + 1
           /\ entries'[1] = [address |-> Address(op.fun), target |-> Target, by |-> op.by,
                             relocated |-> relocated, saved |-> saved]
           /\ entries'[1] \in Entry
           /\ \A i \in 1..Len(entries) : entries'[i + 1] = entries[i]
           /\ \A i \in 1..Len(entries') : i = 1 \/ i - 1 \in 1..Len(entries)
           /\ Tail(entries') = entries
<1> DEFINE e == [address |-> Address(op.fun), target |-> Target, by |-> op.by,
                 relocated |-> relocated, saved |-> saved]
<1>1. op.fun \in Funs /\ op.by \in Hooks /\ op.closure \in Nat
  BY DEF Op
<1>2. Address(op.fun) \in Int /\ Target \in Targets
  <2>1. FunAt[op.fun] \in Int /\ Flag[op.fun] \in {0, 1}
    BY <1>1, DobbyAssumption
  <2>2. Address(op.fun) \in Int
    BY <2>1 DEF Address
  <2> QED BY <1>1, <2>2 DEF Target, Targets
<1>3. e \in Entry
  BY <1>1, <1>2 DEF Entry
<1>4. entries' = <<e>> \o entries
  BY DEF AddHookEntry
<1> HIDE DEF e
<1>5. <<e>> \in Seq(Entry) /\ Len(<<e>>) = 1 /\ <<e>>[1] = e
  BY <1>3
<1> DEFINE n == Len(entries)
<1>6. n \in Nat
  OBVIOUS
<1>7. /\ entries' \in Seq(Entry) /\ Len(entries') = 1 + n /\ entries'[1] = e
      /\ \A i \in 1..n : entries'[1 + i] = entries[i]
  <2>1. LET c == <<e>> \o entries
        IN  /\ c \in Seq(Entry) /\ Len(c) = Len(<<e>>) + Len(entries)
            /\ \A i \in 1..Len(<<e>>) : c[i] = <<e>>[i]
            /\ \A i \in 1..Len(entries) : c[Len(<<e>>) + i] = entries[i]
    BY <1>5, ConcatFacts
  <2>2. 1 \in 1..Len(<<e>>)
    BY <1>5
  <2> QED BY <1>4, <1>5, <2>1, <2>2
<1> HIDE DEF n
<1>8. /\ Len(entries') = n + 1 /\ \A i \in 1..n : entries'[i + 1] = entries[i]
      /\ \A i \in 1..Len(entries') : i = 1 \/ i - 1 \in 1..n
  BY <1>6, <1>7
<1>9. Tail(entries') = entries
  <2>1. entries' # << >>
    BY <1>6, <1>7
  <2>2. /\ Tail(entries') \in Seq(Entry) /\ Len(Tail(entries')) = Len(entries') - 1
        /\ \A i \in 1..Len(Tail(entries')) : Tail(entries')[i] = entries'[i + 1]
    BY <1>7, <2>1, HeadTailProperties
  <2>3. Len(Tail(entries')) = n
    BY <1>6, <1>8, <2>2
  <2>4. \A i \in 1..n : Tail(entries')[i] = entries[i]
    BY <1>8, <2>2, <2>3
  <2> QED BY <2>2, <2>3, <2>4, SeqEqual DEF n
<1> QED BY <1>3, <1>7, <1>8, <1>9 DEF e, n

\* The record of the code that is copied.
Copy(f) == [kind |-> "copy", fun |-> f, to |-> LeadsTo(f), closure |-> op.closure,
            used |-> EmittedLength(Covered(f)),
            misled |-> {Covered(f)[n].op :
                          n \in Misled(f, Covered(f), AddressFor(CopySize(f)))}]

\* The record of a copy is one that a chunk may hold.
LEMMA CopyType ==
    ASSUME DobbyTypeOK, op \in Op
    PROVE  Copy(op.fun) \in Holding /\ CopySize(op.fun) \in 1..PageSize
<1> DEFINE f == op.fun
<1>1. f \in Funs /\ op.closure \in Nat
  BY DEF Op
<1>2. /\ Covered(f) \in Seq(Insn) /\ EmittedLength(Covered(f)) \in Nat
      /\ CopySize(f) \in 1..PageSize
  BY <1>1, CoveredFacts
<1>3. LeadsTo(f) \in Funs \cup Targets
  <2>1. bytes[f][1] \in CodeByte
    BY <1>1, SpanType DEF DobbyTypeOK
  <2> QED BY <1>1, <2>1 DEF LeadsTo, JumpsTo, CodeByte
<1>4. \A n \in DOMAIN Covered(f) : Covered(f)[n].op \in Ops \cup {"unsupported"}
  <2>1. \A n \in DOMAIN Covered(f) : Covered(f)[n] \in Insn
    BY <1>2
  <2> QED BY <2>1 DEF Insn, Kinds, Ops
<1>5. Misled(f, Covered(f), AddressFor(CopySize(f))) \subseteq
        {n \in DOMAIN Covered(f) : Covered(f)[n].op # "unsupported"}
  BY DEF Misled
<1>6. {Covered(f)[n].op : n \in Misled(f, Covered(f), AddressFor(CopySize(f)))} \in SUBSET Ops
  BY <1>4, <1>5
<1> QED BY <1>1, <1>2, <1>3, <1>6 DEF Copy, Holding

-----------------------------------------------------------------------------
(* The arena is in order, on x86 and on ARM *)

\* Every step keeps the arena in order, and what is saved short.
LEMMA ArenaStep ==
    ASSUME ArenaInv, [DobbyNext]_dobbyVars
    PROVE  ArenaInv'
<1> USE DEF ArenaInv
<1> DEFINE typed == <<prologue, bytes, pages, chunks, entries, op>>
<1>0. ASSUME UNCHANGED typed PROVE ArenaInv'
  BY <1>0 DEF DobbyTypeOK, Laid, Fits, OnPage
<1>1. ASSUME NEW f \in Funs, NEW r \in Replacements, DobbyHook(f, r) PROVE ArenaInv'
  <2>1. op' \in Op
    BY <1>1 DEF DobbyHook, Begin, Op, Hooks
  <2> QED BY <1>1, <2>1 DEF DobbyHook, DobbyTypeOK, Laid, Fits, OnPage
<1>2. ASSUME NEW f \in Funs, NEW h \in Handlers, DobbyInstrument(f, h) PROVE ArenaInv'
  <2>1. op' \in Op
    BY <1>2 DEF DobbyInstrument, Begin, Op, Hooks
  <2> QED BY <1>2, <2>1 DEF DobbyInstrument, DobbyTypeOK, Laid, Fits, OnPage
<1>3. ASSUME NEW size \in 1..PageSize, NEW holds \in Holding, AllocateChunk(size, holds),
             holds.kind = "copy" => holds.used <= size,
             UNCHANGED <<prologue, bytes, entries>>, op' \in Op
      PROVE  ArenaInv'
  <2> DEFINE n == Len(chunks)
  <2>1. /\ pages' \in Seq(Nat) /\ chunks' \in Seq(Chunk) /\ Laid(pages', chunks')
        /\ Len(chunks') = n + 1 /\ \A c \in 1..n : chunks'[c] = chunks[c]
        /\ chunks'[n + 1].holds = holds /\ chunks'[n + 1].size = size
    BY <1>3, AllocateKeepsOrder DEF DobbyTypeOK
  <2>2. DobbyTypeOK'
    BY <1>3, <2>1 DEF DobbyTypeOK
  <2>3. n \in Nat /\ \A c \in 1..n + 1 : c \in 1..n \/ c = n + 1
    BY DEF DobbyTypeOK
  <2>4. \A c \in 1..n : chunks[c].holds.kind = "copy" => chunks[c].holds.used <= chunks[c].size
    BY DEF Fits
  <2> HIDE DEF n
  <2>5. \A c \in 1..n + 1 : chunks'[c].holds.kind = "copy" => chunks'[c].holds.used <= chunks'[c].size
    BY <1>3, <2>1, <2>3, <2>4
  <2>6. \A i \in 1..Len(entries') : Len(entries'[i].saved) <= 64
    BY <1>3 DEF Fits
  <2> QED BY <2>1, <2>2, <2>5, <2>6 DEF Fits
<1>4. ASSUME CreateClosure PROVE ArenaInv'
  <2>1. op \in Op
    BY <1>4 DEF CreateClosure, DobbyTypeOK
  <2>2. op.by \in Hooks /\ NewChunk \in Nat
    BY <2>1 DEF Op, NewChunk, DobbyTypeOK
  <2> DEFINE holds == [kind |-> "closure", by |-> op.by]
  <2>3. holds \in Holding /\ holds.kind # "copy"
    BY <2>2 DEF Holding
  <2>4. op' \in Op
    BY <1>4, <2>1, <2>2 DEF CreateClosure, Op
  <2>5. 32 \in 1..PageSize
    BY DobbyAssumption
  <2>6. AllocateChunk(32, holds) /\ UNCHANGED <<prologue, bytes, entries>>
    BY <1>4 DEF CreateClosure
  <2> HIDE DEF holds
  <2> QED BY <1>3, <2>3, <2>4, <2>5, <2>6
<1>5. ASSUME CreateBridge PROVE ArenaInv'
  <2>1. op \in Op
    BY <1>5 DEF CreateBridge, DobbyTypeOK
  <2> DEFINE holds == [kind |-> "bridge"]
  <2>3. holds \in Holding /\ holds.kind # "copy"
    BY DEF Holding
  <2>4. op' \in Op
    BY <1>5, <2>1 DEF CreateBridge, Op
  <2>5. BridgeSize \in 1..PageSize
    BY DobbyAssumption
  <2>6. AllocateChunk(BridgeSize, holds) /\ UNCHANGED <<prologue, bytes, entries>>
    BY <1>5 DEF CreateBridge
  <2> HIDE DEF holds
  <2> QED BY <1>3, <2>3, <2>4, <2>5, <2>6
<1>6. ASSUME InstrumentFails PROVE ArenaInv'
  BY <1>0, <1>6 DEF InstrumentFails
<1>7. ASSUME NEW relocated \in Nat, NEW saved \in Seq(CodeByte), Len(saved) <= 64, op \in Op,
             AddHookEntry(relocated, saved)
      PROVE  entries' \in Seq(Entry) /\ \A i \in 1..Len(entries') : Len(entries'[i].saved) <= 64
  <2>1. /\ entries' \in Seq(Entry) /\ entries'[1].saved = saved
        /\ \A i \in 1..Len(entries) : entries'[i + 1] = entries[i]
        /\ \A i \in 1..Len(entries') : i = 1 \/ i - 1 \in 1..Len(entries)
    <3>1. /\ entries' \in Seq(Entry)
          /\ entries'[1] = [address |-> Address(op.fun), target |-> Target, by |-> op.by,
                            relocated |-> relocated, saved |-> saved]
          /\ \A i \in 1..Len(entries) : entries'[i + 1] = entries[i]
          /\ \A i \in 1..Len(entries') : i = 1 \/ i - 1 \in 1..Len(entries)
      BY <1>7, AddHookEntryFacts DEF DobbyTypeOK
    <3> QED BY <3>1
  <2>2. ASSUME NEW i \in 1..Len(entries') PROVE Len(entries'[i].saved) <= 64
    <3>1. CASE i = 1
      BY <1>7, <2>1, <3>1
    <3>2. CASE i - 1 \in 1..Len(entries)
      <4>1. (i - 1) + 1 = i
        OBVIOUS
      <4>2. entries'[i] = entries[i - 1]
        BY <2>1, <3>2, <4>1
      <4> QED BY <3>2, <4>2 DEF Fits
    <3> QED BY <2>1, <3>1, <3>2
  <2> QED BY <2>1, <2>2
<1>8. ASSUME GenerateRelocatedCode PROVE ArenaInv'
  <2> DEFINE f == op.fun
             saved == [k \in 1..SavedLength(f) |-> bytes[f][k]]
  <2>1. op \in Op
    BY <1>8 DEF GenerateRelocatedCode, DobbyTypeOK
  <2>2. f \in Funs /\ NewChunk \in Nat
    BY <2>1 DEF Op, NewChunk, DobbyTypeOK
  <2>3. SavedLength(f) \in 0..Span /\ EmittedLength(Covered(f)) <= CopySize(f)
    BY <2>2, CoveredFacts
  <2>4. Copy(f) \in Holding /\ CopySize(f) \in 1..PageSize
    BY <2>1, CopyType
  <2>5. /\ AllocateChunk(CopySize(f), Copy(f)) /\ AddHookEntry(NewChunk, saved)
        /\ UNCHANGED <<prologue, bytes>>
    BY <1>8 DEF GenerateRelocatedCode, Copy
  <2>6. saved \in Seq(CodeByte) /\ Len(saved) <= 64
    <3> DEFINE n == SavedLength(f)
    <3> HIDE DEF n
    <3>1. n \in Nat /\ n <= 64 /\ 1..n \subseteq 0..Span
      BY <2>3, SpanType DEF n
    <3>2. [k \in 1..n |-> bytes[f][k]] \in [1..n -> CodeByte]
      BY <2>2, <3>1 DEF DobbyTypeOK
    <3>3. [k \in 1..n |-> bytes[f][k]] \in Seq(CodeByte) /\ Len([k \in 1..n |-> bytes[f][k]]) = n
      BY <3>1, <3>2, IsASeq, LenProperties
    <3> QED BY <3>1, <3>3 DEF n
  <2>7. op' \in Op
    BY <1>8, <2>1, <2>2 DEF GenerateRelocatedCode, Op, AfterCopy
  <2>8. Copy(f).used <= CopySize(f)
    BY <2>3 DEF Copy
  <2> HIDE DEF f, saved
  <2>9. entries' \in Seq(Entry) /\ \A i \in 1..Len(entries') : Len(entries'[i].saved) <= 64
    BY <1>7, <2>1, <2>2, <2>5, <2>6
  <2> DEFINE n == Len(chunks)
  <2>10. /\ pages' \in Seq(Nat) /\ chunks' \in Seq(Chunk) /\ Laid(pages', chunks')
         /\ Len(chunks') = n + 1 /\ \A c \in 1..n : chunks'[c] = chunks[c]
         /\ chunks'[n + 1].holds = Copy(f) /\ chunks'[n + 1].size = CopySize(f)
    BY <2>4, <2>5, AllocateKeepsOrder DEF DobbyTypeOK
  <2>11. n \in Nat /\ \A c \in 1..n + 1 : c \in 1..n \/ c = n + 1
    BY DEF DobbyTypeOK
  <2>12. \A c \in 1..n : chunks[c].holds.kind = "copy" => chunks[c].holds.used <= chunks[c].size
    BY DEF Fits
  <2> HIDE DEF n
  <2>13. \A c \in 1..n + 1 :
            chunks'[c].holds.kind = "copy" => chunks'[c].holds.used <= chunks'[c].size
    BY <2>8, <2>10, <2>11, <2>12
  <2>14. DobbyTypeOK'
    BY <2>5, <2>7, <2>9, <2>10 DEF DobbyTypeOK
  <2> QED BY <2>9, <2>10, <2>13, <2>14 DEF Fits
<1>16. ASSUME RelocationAborts PROVE ArenaInv'
  <2>1. op \in Op
    BY <1>16 DEF RelocationAborts, DobbyTypeOK
  <2>2. op' \in Op /\ UNCHANGED <<prologue, bytes, pages, chunks, entries>>
    BY <1>16, <2>1 DEF RelocationAborts, Op
  <2> QED BY <2>2 DEF DobbyTypeOK, Laid, Fits, OnPage
<1>9. ASSUME RelocationFails PROVE ArenaInv'
  <2>1. op \in Op
    BY <1>9 DEF RelocationFails, DobbyTypeOK
  <2>2. << >> \in Seq(CodeByte) /\ Len(<< >>) <= 64 /\ 0 \in Nat
    OBVIOUS
  <2>3. entries' \in Seq(Entry) /\ \A i \in 1..Len(entries') : Len(entries'[i].saved) <= 64
    BY <1>7, <1>9, <2>1, <2>2 DEF RelocationFails
  <2>4. op' \in Op /\ UNCHANGED <<prologue, bytes, pages, chunks>>
    BY <1>9, <2>1 DEF RelocationFails, Op, AfterCopy
  <2> QED BY <2>3, <2>4 DEF DobbyTypeOK, Laid, Fits, OnPage
<1>10. ASSUME SetOrigin PROVE ArenaInv'
  <2>1. op' \in Op
    BY <1>10 DEF SetOrigin, Op, DobbyTypeOK
  <2> QED BY <1>10, <2>1 DEF SetOrigin, DobbyTypeOK, Laid, Fits, OnPage
<1>11. ASSUME Commit PROVE ArenaInv'
  <2>1. op.fun \in Funs /\ Target \in Targets
    BY <1>11 DEF Commit, DobbyTypeOK, Op, Target, Targets
  <2>2. CodePatch(op.fun, 1, Trampoline(Target)) /\ Trampoline(Target) \in Seq(CodeByte)
    BY <1>11, <2>1, TrampolineType DEF Commit
  <2>3. bytes' \in [Funs -> [0..Span -> CodeByte]]
    BY <2>1, <2>2, CodePatchType DEF DobbyTypeOK
  <2>4. UNCHANGED <<prologue, pages, chunks, entries>> /\ op' = Null
    BY <1>11 DEF Commit
  <2> QED BY <2>3, <2>4 DEF DobbyTypeOK, Laid, Fits, OnPage
<1>12. ASSUME NEW f \in Funs, DobbyDestroy(f) PROVE ArenaInv'
  <2> DEFINE address == Address(f) - (IF Arm THEN 1 ELSE 0)
             first == Find(Address(f))
             listed == Find(address)
  <2>1. first # 0 /\ CodePatch(f, address - FunAt[f] + 1, entries[first].saved)
    BY <1>12 DEF DobbyDestroy
  <2>2. address - FunAt[f] + 1 \in Int
    <3>1. FunAt[f] \in Int /\ Flag[f] \in {0, 1}
      BY DobbyAssumption
    <3> QED BY <3>1 DEF Address
  <2>3. entries[first].saved \in Seq(CodeByte)
    <3>1. entries[first] \in Entry
      BY <2>1, FindFacts DEF DobbyTypeOK
    <3> QED BY <3>1 DEF Entry
  <2>4. bytes' \in [Funs -> [0..Span -> CodeByte]]
    BY <2>1, <2>2, <2>3, CodePatchType DEF DobbyTypeOK
  <2>5. entries' \in Seq(Entry) /\ \A i \in 1..Len(entries') : Len(entries'[i].saved) <= 64
    <3>1. entries' = IF listed = 0 THEN entries ELSE RemoveAt(entries, listed)
      BY <1>12 DEF DobbyDestroy
    <3>2. CASE listed = 0
      BY <3>1, <3>2 DEF DobbyTypeOK, Fits
    <3>3. CASE listed # 0
      <4>1. listed \in 1..Len(entries)
        BY <3>3, FindFacts DEF DobbyTypeOK
      <4> DEFINE n == Len(entries)
      <4>2. /\ entries' \in Seq(Entry) /\ Len(entries') = n - 1
            /\ \A i \in 1..n - 1 : entries'[i] = IF i < listed THEN entries[i] ELSE entries[i + 1]
        BY <3>1, <3>3, <4>1, RemoveAtFacts DEF DobbyTypeOK
      <4>3. n \in Nat /\ \A i \in 1..n : Len(entries[i].saved) <= 64
        BY DEF DobbyTypeOK, Fits
      <4> HIDE DEF n, listed
      <4>4. \A i \in 1..n - 1 : i \in 1..n /\ i + 1 \in 1..n
        BY <4>3
      <4> QED BY <4>2, <4>3, <4>4
    <3> QED BY <3>2, <3>3
  <2>6. UNCHANGED <<prologue, pages, chunks, op>>
    BY <1>12 DEF DobbyDestroy
  <2> QED BY <2>4, <2>5, <2>6 DEF DobbyTypeOK, Laid, Fits, OnPage
<1>13. ASSUME NEW t \in Threads, NEW f \in Funs, Call(t, f) PROVE ArenaInv'
  BY <1>0, <1>13 DEF Call, unpatched, clientVars
<1>14. ASSUME NEW t \in Threads, InCall(t) PROVE ArenaInv'
  <2>1. UNCHANGED unpatched
    BY <1>14 DEF InCall, EnterHead, Replace, CallOrigin, ForwardHandler, RunCopy, GoAstray, Crash,
                 Return
  <2> QED BY <1>0, <2>1 DEF unpatched, clientVars
<1>15. ASSUME UNCHANGED dobbyVars PROVE ArenaInv'
  BY <1>0, <1>15 DEF dobbyVars
<1> QED BY <1>1, <1>2, <1>4, <1>5, <1>6, <1>8, <1>9, <1>10, <1>11, <1>12, <1>13, <1>14, <1>15,
        <1>16 DEF DobbyNext, Client, Hooking

\* The invariant holds of any execution.
THEOREM ArenaInvariance == DobbySafety => []ArenaInv
<1>1. ASSUME DobbyInit PROVE ArenaInv
  <2>1. \A f \in Funs : Own(f) \in [0..Span -> CodeByte]
    BY DEF Own, CodeByte
  <2>2. DobbyTypeOK
    BY <1>1, <2>1 DEF DobbyInit, DobbyTypeOK
  <2>3. Len(pages) = 0 /\ Len(chunks) = 0 /\ Len(entries) = 0
    BY <1>1 DEF DobbyInit
  <2> QED BY <2>2, <2>3 DEF ArenaInv, Laid, Fits
<1> QED BY <1>1, ArenaStep, PTL DEF DobbySafety

\* Wherever the arena lies, whatever the sizes of its pages and of what is
\* allocated, in whatever order: the chunks that MemoryArena::AllocateChunk hands
\* out lie on a page each and apart from one another, no code that is copied is
\* longer than its chunk, and origin_chunk_ has room for what is saved.
THEOREM ChunksAlwaysFit == DobbySafety => []ChunksHoldTheirCode
<1>1. ASSUME ArenaInv PROVE ChunksHoldTheirCode
  <2> DEFINE n == Len(chunks)
             m == Len(pages)
  <2>1. /\ DOMAIN chunks = 1..n /\ DOMAIN pages = 1..m /\ DOMAIN entries = 1..Len(entries)
        /\ n \in Nat /\ m \in Nat /\ \A p \in 1..m : pages[p] \in Nat
        /\ \A c \in 1..n : chunks[c] \in Chunk
    BY <1>1 DEF ArenaInv, DobbyTypeOK
  <2>2. /\ \A p \in 1..m : pages[p] <= PageSize
        /\ \A c \in 1..n : \E p \in 1..m : OnPage(chunks[c], p, pages)
        /\ \A c, d \in 1..n : c < d => Apart(chunks[c], chunks[d])
    BY <1>1 DEF ArenaInv, Laid
  <2> HIDE DEF n, m
  <2>3. ASSUME NEW c \in 1..n
        PROVE  \E p \in 1..m : /\ PageAt(p) <= chunks[c].address
                               /\ chunks[c].address + chunks[c].size <= PageAt(p) + PageSize
    <3>1. PICK p \in 1..m : OnPage(chunks[c], p, pages)
      BY <2>2
    <3>2. pages[p] \in Nat /\ pages[p] <= PageSize /\ PageSize \in Nat /\ PageAt(p) \in Int
      BY <2>1, <2>2, DobbyAssumption DEF PageAt
    <3>3. chunks[c].address + chunks[c].size \in Int
      BY <2>1 DEF Chunk
    <3>4. /\ PageAt(p) <= chunks[c].address
          /\ chunks[c].address + chunks[c].size <= PageAt(p) + pages[p]
      BY <3>1 DEF OnPage
    <3>5. chunks[c].address + chunks[c].size <= PageAt(p) + PageSize
      BY <3>2, <3>3, <3>4
    <3> QED BY <3>4, <3>5
  <2>4. /\ \A c \in 1..n : chunks[c].holds.kind = "copy" => chunks[c].holds.used <= chunks[c].size
        /\ \A i \in 1..Len(entries) : Len(entries[i].saved) <= 64
    BY <1>1 DEF ArenaInv, Fits, n
  <2> QED BY <2>1, <2>2, <2>3, <2>4 DEF ChunksHoldTheirCode, Apart
<1> QED BY <1>1, ArenaInvariance, PTL

-----------------------------------------------------------------------------
(* The inductive invariant of hooking on x86 *)

\* Jumped to from the code of a function, or saved there.
IsCode(x, cs) == x \in Replacements \/ x \in 1..Len(cs)
IsCopy(c, cs) == c \in 1..Len(cs) /\ cs[c].holds.kind = "copy"
IsClosure(c, h, cs) == c \in 1..Len(cs) /\ cs[c].holds.kind = "closure" /\ cs[c].holds.by = h
CopyOf(c, closure, cs) == IsCopy(c, cs) /\ cs[c].holds.closure = closure

\* The first bytes of a function lead to next, or to its body if next is Null.
HeadIs(b, next) ==
    \A k \in 0..Span : b[k] = [by |-> IF k \in 1..JumpSize THEN next ELSE Null, k |-> k]

\* An entry e of f has saved the bytes that lead to next; its copy goes on there;
\* and its replacement or its closure finds that copy.
Saves(e, next) ==
    /\ JumpSize <= Len(e.saved) /\ Len(e.saved) <= Span
    /\ \A k \in 1..Len(e.saved) :
         e.saved[k] = [by |-> IF k <= JumpSize THEN next ELSE Null, k |-> k]
Behind(f, next) == IF next = Null THEN f ELSE next
GoesOn(e, f, next, cs) ==
    IsCopy(e.relocated, cs) /\ cs[e.relocated].holds.to = Behind(f, next)
FindsCopy(e, cs, og) ==
    \/ e.by \in Replacements /\ e.target = e.by /\ og[e.by] = e.relocated
    \/ /\ e.by \in Handlers /\ IsClosure(e.target, e.by, cs)
       /\ \A c \in 1..Len(cs) : CopyOf(c, e.target, cs) <=> c = e.relocated
Linked(e, f, next, cs, og) ==
    Saves(e, next) /\ GoesOn(e, f, next, cs) /\ FindsCopy(e, cs, og)

\* The n-th hook of a function is followed by the next older one, or by Null.
Older(l, n) == IF n = Len(l) THEN Null ELSE l[n + 1].target
Chained(f, l, b, cs, og) ==
    /\ HeadIs(b, Older(l, 0))
    /\ \A n \in 1..Len(l) : Linked(l[n], f, Older(l, n), cs, og)

\* l has the entries of the list es that are of an address, from the front.
OwnEntries(address, l, es) ==
    \E p \in [1..Len(l) -> 1..Len(es)] :
        Places(es, address, p) /\ \A i \in 1..Len(l) : l[i] = es[p[i]]

\* Once the entry is on the list and until the code is patched, the first entry
\* is not in effect.
Pending == op # Null /\ op.stage \in {"origin", "commit"}
InEffect == IF Pending THEN Tail(entries) ELSE entries

EntriesInv(L) ==
    \A f \in Funs : /\ OwnEntries(Address(f), L[f], InEffect)
                    /\ Len(L[f]) = Len(live[f])
                    /\ \A i \in 1..Len(live[f]) : L[f][i].by = live[f][i]

ChainsInv(L) ==
    \A f \in Funs : f \notin starved => Chained(f, L[f], bytes[f], chunks, origin)

\* The hook that is being installed.
OpInv(L) ==
    op # Null =>
        /\ op.by \in Replacements => op.closure = 0 /\ op.stage \notin {"closure", "bridge"} /\ Free(op.by)
        /\ op.relocated = 0 \/ IsCopy(op.relocated, chunks)
        /\ op.by \in Handlers => op.stage # "origin"
        /\ op.stage \in {"closure", "bridge", "copy"} => op.relocated = 0
        /\ op.by \in Handlers /\ op.stage # "closure" => IsClosure(op.closure, op.by, chunks)
        /\ op.by \in Handlers /\ op.stage \in {"bridge", "copy"} =>
             \A c \in 1..Len(chunks) : ~CopyOf(c, op.closure, chunks)
        /\ op.stage \in {"origin", "commit"} =>
             /\ entries # << >>
             /\ LET e == Head(entries)
                IN  /\ e.address = Address(op.fun) /\ e.target = Target
                    /\ e.by = op.by /\ e.relocated = op.relocated
                    /\ op.fun \notin starved =>
                         /\ Saves(e, Older(L[op.fun], 0))
                         /\ GoesOn(e, op.fun, Older(L[op.fun], 0), chunks)
                         /\ op.stage = "commit" => FindsCopy(e, chunks, origin)

\* Code is replacements and chunks that are there; a copied branch that leads
\* elsewhere is a conditional or a short one of the function.
HasBranch(insns) == \E n \in DOMAIN insns : insns[n].op \in {"jc8", "jmp8", "jcc32"}
OrCode(x, S, cs) == x \in S \/ IsCode(x, cs)
SavedInv(es, cs) ==
    \A i \in 1..Len(es) : \A k \in 1..Len(es[i].saved) : OrCode(es[i].saved[k].by, {Null}, cs)
CopyInv(c, cs, pr) ==
    /\ cs[c].holds.closure <= Len(cs)
    /\ OrCode(cs[c].holds.to, Funs, cs)
    /\ cs[c].holds.misled # {} => HasBranch(pr[cs[c].holds.fun])
CodeInv ==
    /\ \A f \in Funs, k \in 0..Span : OrCode(bytes[f][k].by, {Null}, chunks)
    /\ \A c \in 1..Len(chunks) : IsCopy(c, chunks) => CopyInv(c, chunks, prologue)
    /\ \A r \in Replacements : origin[r] = 0 \/ IsCopy(origin[r], chunks)

\* No way from x ends at a null address.
Sound(x, cs, og) ==
    /\ x \in Replacements => og[x] # 0
    /\ (x \in 1..Len(cs) /\ cs[x].holds.kind = "closure") => \E c \in 1..Len(cs) : CopyOf(c, x, cs)
SoundInv ==
    /\ starved = {} =>
         /\ \A c \in 1..Len(chunks) : IsCopy(c, chunks) => Sound(chunks[c].holds.to, chunks, origin)
         /\ \A t \in Threads : call[t] # Null /\ call[t].at \in {"replacement", "chunk"} =>
                Sound(call[t].where, chunks, origin)

\* A call c of a function with the hooks l in effect has run the first of them
\* and is at the next one or at the function itself.
OnItsWay(c, l) ==
    LET n == Len(c.ran)
    IN  /\ n <= Len(l) /\ \A i \in 1..n : c.ran[i] = l[i].by
        /\ c.at \in {"replacement", "body"} => c.where = Behind(c.fun, Older(l, n))
        /\ c.at = "chunk" => \/ c.where = Older(l, n) /\ n < Len(l)
                             \/ n # 0 /\ c.where = l[n].relocated

Calls == [fun : Funs, at : {"head", "replacement", "chunk", "body", "returned", "astray"},
          where : Funs \cup Targets \cup {Null}, ran : Seq(Hooks), clean : BOOLEAN]
CallInv(c, L, cs, pr, out) ==
    /\ c.at = "replacement" => c.where \in Replacements
    /\ c.at = "body" => c.where \in Funs
    /\ c.at = "chunk" => c.where \in 1..Len(cs)
    /\ c.at = "astray" => c.where \in Funs /\ HasBranch(pr[c.where])
    /\ c.clean /\ c.fun \notin out => OnItsWay(c, L[c.fun])

HookTypeOK ==
    /\ origin \in [Replacements -> Nat] /\ live \in [Funs -> Seq(Hooks)]
    /\ call \in [Threads -> Calls \cup {Null}]

HookInv(L) ==
    /\ HookTypeOK /\ EntriesInv(L) /\ ChainsInv(L) /\ OpInv(L)
    /\ CodeInv /\ SavedInv(entries, chunks) /\ SoundInv
    /\ \A t \in Threads : call[t] # Null => CallInv(call[t], L, chunks, prologue, starved)

-----------------------------------------------------------------------------
(* The entries of one function on the list of all *)

\* Places, said of the elements.
InPlace(es, a, p, n) ==
    /\ \A i, j \in 1..n : i < j => p[i] < p[j]
    /\ \A i \in 1..n : es[p[i]].address = a
    /\ \A j \in 1..Len(es) : es[j].address = a => \E i \in 1..n : p[i] = j

\* Places, element by element.
LEMMA PlacesMeans ==
    ASSUME NEW es \in Seq(Entry), NEW n \in Nat, NEW p \in [1..n -> 1..Len(es)], NEW a
    PROVE  Places(es, a, p) <=> InPlace(es, a, p, n)
<1> DEFINE R == {p[i] : i \in DOMAIN p}
           S == {i \in DOMAIN es : es[i].address = a}
<1>1. DOMAIN p = 1..n /\ DOMAIN es = 1..Len(es) /\ \A i \in 1..n : p[i] \in 1..Len(es)
  OBVIOUS
<1>2. (\A i \in 1..n : es[p[i]].address = a) <=> R \subseteq S
  BY <1>1
<1>3. (\A j \in 1..Len(es) : es[j].address = a => \E i \in 1..n : p[i] = j) <=> S \subseteq R
  BY <1>1
<1>4. R = S <=> R \subseteq S /\ S \subseteq R
  OBVIOUS
<1>5. Places(es, a, p) <=> /\ \A i, j \in 1..n : i < j => p[i] < p[j]
                           /\ R = S
  BY <1>1 DEF Places
<1> HIDE DEF R, S
<1> QED BY <1>2, <1>3, <1>4, <1>5 DEF InPlace

Prepended(s2, e, s) ==
    /\ s2 \in Seq(Entry) /\ Len(s2) = Len(s) + 1 /\ s2[1] = e
    /\ \A i \in 1..Len(s) : s2[i + 1] = s[i]

\* An entry of the address is put before the others.
LEMMA OwnPrepended ==
    ASSUME NEW es \in Seq(Entry), NEW l \in Seq(Entry), NEW a, NEW e, NEW es2, NEW l2,
           OwnEntries(a, l, es), e.address = a, Prepended(es2, e, es), Prepended(l2, e, l)
    PROVE  OwnEntries(a, l2, es2)
<1> DEFINE n == Len(l)
           m == Len(es)
<1>1. n \in Nat /\ m \in Nat
  OBVIOUS
<1>2. PICK p \in [1..n -> 1..m] : Places(es, a, p) /\ \A i \in 1..n : l[i] = es[p[i]]
  BY DEF OwnEntries
<1>3. /\ \A i, j \in 1..n : i < j => p[i] < p[j]
      /\ \A i \in 1..n : es[p[i]].address = a
      /\ \A j \in 1..m : es[j].address = a => \E i \in 1..n : p[i] = j
  <2>1. InPlace(es, a, p, n)
    BY <1>1, <1>2, PlacesMeans
  <2> QED BY <2>1 DEF InPlace
<1>4. /\ es2 \in Seq(Entry) /\ Len(es2) = m + 1 /\ es2[1] = e
      /\ \A i \in 1..m : es2[i + 1] = es[i]
      /\ l2 \in Seq(Entry) /\ Len(l2) = n + 1 /\ l2[1] = e
      /\ \A i \in 1..n : l2[i + 1] = l[i]
  BY DEF Prepended
<1> HIDE DEF n, m
<1> DEFINE q == [i \in 1..n + 1 |-> IF i = 1 THEN 1 ELSE p[i - 1] + 1]
<1>5. \A i \in 1..n : p[i] \in 1..m
  BY <1>2
<1>6. \A i \in 1..n + 1 : i = 1 \/ (i # 1 /\ i - 1 \in 1..n)
  BY <1>1
<1>7. 1 \in 1..n + 1 /\ 1 \in 1..m + 1 /\ \A j \in 1..m : j + 1 \in 1..m + 1
  BY <1>1
<1>8. \A i \in 1..n + 1 : (IF i = 1 THEN 1 ELSE p[i - 1] + 1) \in 1..m + 1
  BY <1>5, <1>6, <1>7
<1>9. q \in [1..n + 1 -> 1..m + 1] /\ q[1] = 1
  BY <1>7, <1>8
<1>10. \A i \in 1..n : i + 1 \in 1..n + 1 /\ q[i + 1] = p[i] + 1
  BY <1>1
<1> HIDE DEF q
<1>11. ASSUME NEW i \in 1..n + 1, NEW j \in 1..n + 1, i < j PROVE q[i] < q[j]
  <2>1. j # 1 /\ j - 1 \in 1..n
    BY <1>1, <1>11
  <2>2. q[j] = p[j - 1] + 1
    <3>1. (j - 1) + 1 = j
      OBVIOUS
    <3> QED BY <1>10, <2>1, <3>1
  <2>3. p[j - 1] \in 1..m
    BY <1>5, <2>1
  <2>4. CASE i = 1
    BY <1>9, <2>2, <2>3, <2>4
  <2>5. CASE i # 1
    <3>1. i - 1 \in 1..n /\ i - 1 < j - 1 /\ (i - 1) + 1 = i
      BY <1>11, <2>1, <2>5, <1>6
    <3>2. q[i] = p[i - 1] + 1
      BY <1>10, <3>1
    <3>3. p[i - 1] < p[j - 1] /\ p[i - 1] \in 1..m
      BY <1>3, <1>5, <2>1, <3>1
    <3> QED BY <2>2, <2>3, <3>2, <3>3
  <2> QED BY <2>4, <2>5
<1>12. ASSUME NEW i \in 1..n + 1 PROVE es2[q[i]] = l2[i] /\ es2[q[i]].address = a
  <2>1. CASE i = 1
    BY <1>4, <1>9, <2>1
  <2>2. CASE i # 1
    <3>1. i - 1 \in 1..n /\ (i - 1) + 1 = i
      BY <1>6, <2>2
    <3>2. q[i] = p[i - 1] + 1 /\ p[i - 1] \in 1..m
      BY <1>5, <1>10, <3>1
    <3>3. es2[q[i]] = es[p[i - 1]] /\ l2[i] = l[i - 1]
      BY <1>4, <3>1, <3>2
    <3> QED BY <1>2, <1>3, <3>1, <3>3
  <2> QED BY <2>1, <2>2
<1>13. ASSUME NEW j \in 1..m + 1, es2[j].address = a PROVE \E i \in 1..n + 1 : q[i] = j
  <2>1. CASE j = 1
    BY <1>7, <1>9, <2>1
  <2>2. CASE j # 1
    <3>1. j - 1 \in 1..m /\ (j - 1) + 1 = j
      BY <1>1, <2>2
    <3>2. es[j - 1].address = a
      BY <1>4, <1>13, <3>1
    <3>3. PICK i \in 1..n : p[i] = j - 1
      BY <1>3, <3>1, <3>2
    <3>4. q[i + 1] = j /\ i + 1 \in 1..n + 1
      BY <1>10, <3>1, <3>3
    <3> QED BY <3>4
  <2> QED BY <2>1, <2>2
<1>14. n + 1 \in Nat /\ q \in [1..n + 1 -> 1..Len(es2)]
  BY <1>1, <1>4, <1>9
<1>15. Places(es2, a, q)
  <2> DEFINE n2 == n + 1
  <2>1. /\ n2 \in Nat /\ q \in [1..n2 -> 1..Len(es2)]
        /\ InPlace(es2, a, q, n2)
    BY <1>4, <1>11, <1>12, <1>13, <1>14 DEF InPlace
  <2> HIDE DEF n2
  <2> QED BY <1>4, <2>1, PlacesMeans
<1> QED BY <1>4, <1>12, <1>14, <1>15 DEF OwnEntries

\* An entry of another address is put before the others.
LEMMA OthersPrepended ==
    ASSUME NEW es \in Seq(Entry), NEW l \in Seq(Entry), NEW a, NEW e, NEW es2,
           OwnEntries(a, l, es), e.address # a, Prepended(es2, e, es)
    PROVE  OwnEntries(a, l, es2)
<1> DEFINE n == Len(l)
           m == Len(es)
<1>1. n \in Nat /\ m \in Nat
  OBVIOUS
<1>2. PICK p \in [1..n -> 1..m] : Places(es, a, p) /\ \A i \in 1..n : l[i] = es[p[i]]
  BY DEF OwnEntries
<1>3. /\ \A i, j \in 1..n : i < j => p[i] < p[j]
      /\ \A i \in 1..n : es[p[i]].address = a
      /\ \A j \in 1..m : es[j].address = a => \E i \in 1..n : p[i] = j
  <2>1. InPlace(es, a, p, n)
    BY <1>1, <1>2, PlacesMeans
  <2> QED BY <2>1 DEF InPlace
<1>4. /\ es2 \in Seq(Entry) /\ Len(es2) = m + 1 /\ es2[1] = e
      /\ \A i \in 1..m : es2[i + 1] = es[i]
  BY DEF Prepended
<1> HIDE DEF m
<1> DEFINE q == [i \in 1..n |-> p[i] + 1]
<1>5. \A i \in 1..n : p[i] \in 1..m
  BY <1>2
<1>6. \A j \in 1..m : j + 1 \in 1..m + 1
  BY <1>1
<1>7. q \in [1..n -> 1..Len(es2)] /\ \A i \in 1..n : q[i] = p[i] + 1
  BY <1>4, <1>5, <1>6
<1> HIDE DEF q, n
<1>8. \A i, j \in 1..n : i < j => q[i] < q[j]
  BY <1>3, <1>5, <1>7
<1>9. \A i \in 1..n : es2[q[i]] = es[p[i]] /\ es2[q[i]] = l[i]
  BY <1>2, <1>4, <1>5, <1>7
<1>10. ASSUME NEW j \in 1..Len(es2), es2[j].address = a PROVE \E i \in 1..n : q[i] = j
  <2>1. j # 1 /\ j \in 1..m + 1
    BY <1>4, <1>10
  <2>2. j - 1 \in 1..m /\ (j - 1) + 1 = j
    BY <1>1, <2>1
  <2>3. es[j - 1].address = a
    BY <1>4, <1>10, <2>2
  <2>4. PICK i \in 1..n : p[i] = j - 1
    BY <1>3, <2>2, <2>3
  <2> QED BY <1>7, <2>2, <2>4
<1>11. Places(es2, a, q)
  <2>1. InPlace(es2, a, q, n)
    BY <1>3, <1>8, <1>9, <1>10 DEF InPlace
  <2> QED BY <1>1, <1>4, <1>7, <2>1, PlacesMeans
<1> QED BY <1>7, <1>9, <1>11 DEF OwnEntries, n

\* The newest entry of the address is taken off the list.
LEMMA OwnRemoved ==
    ASSUME NEW es \in Seq(Entry), NEW l \in Seq(Entry), NEW a, NEW k \in 1..Len(es),
           OwnEntries(a, l, es), es[k].address = a,
           \A i \in 1..Len(es) : i < k => es[i].address # a
    PROVE  l # << >> /\ l[1] = es[k] /\ OwnEntries(a, Tail(l), RemoveAt(es, k))
<1> DEFINE n == Len(l)
           m == Len(es)
           l2 == Tail(l)
           es2 == RemoveAt(es, k)
<1>1. n \in Nat /\ m \in Nat
  OBVIOUS
<1>2. PICK p \in [1..n -> 1..m] : Places(es, a, p) /\ \A i \in 1..n : l[i] = es[p[i]]
  BY DEF OwnEntries
<1>3. /\ \A i, j \in 1..n : i < j => p[i] < p[j]
      /\ \A i \in 1..n : es[p[i]].address = a
      /\ \A j \in 1..m : es[j].address = a => \E i \in 1..n : p[i] = j
  <2>1. InPlace(es, a, p, n)
    BY <1>1, <1>2, PlacesMeans
  <2> QED BY <2>1 DEF InPlace
<1>4. PICK i0 \in 1..n : p[i0] = k
  BY <1>3
<1>5. l # << >> /\ n >= 1
  BY <1>1, <1>4
<1>6. /\ es2 \in Seq(Entry) /\ Len(es2) = m - 1
      /\ \A i \in 1..m - 1 : es2[i] = IF i < k THEN es[i] ELSE es[i + 1]
  BY RemoveAtFacts
<1>7. l2 \in Seq(Entry) /\ Len(l2) = n - 1 /\ \A i \in 1..n - 1 : l2[i] = l[i + 1]
  BY <1>5, HeadTailProperties
<1>8. k \in 1..m
  OBVIOUS
<1> HIDE DEF n, m, l2, es2
<1>9. \A i \in 1..n : p[i] \in 1..m
  BY <1>2
<1>10. 1 \in 1..n /\ p[1] = k
  <2>1. 1 \in 1..n
    BY <1>1, <1>5
  <2>2. CASE i0 = 1
    BY <1>4, <2>1, <2>2
  <2>3. CASE i0 # 1
    <3>1. p[1] < k /\ p[1] \in 1..m
      BY <1>3, <1>4, <1>9, <2>1, <2>3
    <3>2. es[p[1]].address # a
      BY <3>1 DEF m
    <3> QED BY <1>3, <2>1, <3>2
  <2> QED BY <2>2, <2>3
<1>11. l[1] = es[k]
  BY <1>2, <1>10
<1> DEFINE q == [i \in 1..n - 1 |-> p[i + 1] - 1]
<1>12. ASSUME NEW i \in 1..n - 1
       PROVE  /\ i + 1 \in 1..n /\ p[i + 1] > k /\ p[i + 1] \in 1..m
              /\ p[i + 1] - 1 \in 1..m - 1 /\ ~(p[i + 1] - 1 < k) /\ (p[i + 1] - 1) + 1 = p[i + 1]
  <2>1. i + 1 \in 1..n /\ 1 < i + 1
    BY <1>1
  <2>2. p[1] < p[i + 1] /\ p[i + 1] \in 1..m
    BY <1>3, <1>9, <1>10, <2>1
  <2> QED BY <1>1, <1>8, <1>10, <2>1, <2>2
<1>13. q \in [1..n - 1 -> 1..m - 1] /\ \A i \in 1..n - 1 : q[i] = p[i + 1] - 1
  BY <1>12
<1> HIDE DEF q
<1>14. ASSUME NEW i \in 1..n - 1 PROVE es2[q[i]] = es[p[i + 1]] /\ l2[i] = es2[q[i]]
  <2> DEFINE j == q[i]
  <2>1. j \in 1..m - 1 /\ ~(j < k) /\ j + 1 = p[i + 1] /\ i + 1 \in 1..n
    BY <1>12, <1>13
  <2> HIDE DEF j
  <2>2. es2[j] = es[j + 1]
    BY <1>6, <2>1
  <2>3. l2[i] = l[i + 1] /\ l[i + 1] = es[p[i + 1]]
    BY <1>2, <1>7, <2>1
  <2> QED BY <2>1, <2>2, <2>3 DEF j
<1>15. ASSUME NEW i \in 1..n - 1, NEW j \in 1..n - 1, i < j PROVE q[i] < q[j]
  <2>1. i + 1 < j + 1
    BY <1>15
  <2>2. p[i + 1] < p[j + 1]
    BY <1>3, <1>12, <2>1
  <2> QED BY <1>12, <1>13, <2>2
<1>16. ASSUME NEW j \in 1..m - 1, es2[j].address = a PROVE \E i \in 1..n - 1 : q[i] = j
  <2> DEFINE j2 == IF j < k THEN j ELSE j + 1
  <2>1. j2 \in 1..m /\ j2 # k /\ es2[j] = es[j2]
    BY <1>1, <1>6, <1>8
  <2>2. PICK i \in 1..n : p[i] = j2
    BY <1>3, <1>16, <2>1
  <2>3. i # 1
    BY <1>10, <2>1, <2>2
  <2>4. i - 1 \in 1..n - 1 /\ (i - 1) + 1 = i
    BY <1>1, <2>3
  <2>5. p[i] > k /\ q[i - 1] = p[i] - 1
    BY <1>12, <1>13, <2>4
  <2>6. p[i] - 1 = j
    BY <1>8, <2>2, <2>5
  <2> QED BY <2>4, <2>5, <2>6
<1>17. Places(es2, a, q) /\ q \in [1..Len(l2) -> 1..Len(es2)]
  <2> DEFINE n2 == n - 1
  <2>1. n2 \in Nat /\ q \in [1..n2 -> 1..Len(es2)] /\ InPlace(es2, a, q, n2)
    <3>1. n2 \in Nat /\ q \in [1..n2 -> 1..Len(es2)]
      BY <1>1, <1>5, <1>6, <1>13, SMTT(20)
    <3>2. \A i \in 1..n2 : es2[q[i]].address = a
      BY <1>3, <1>12, <1>14
    <3> QED BY <1>6, <1>15, <1>16, <3>1, <3>2 DEF InPlace
  <2>2. n2 = Len(l2)
    BY <1>7
  <2> HIDE DEF n2
  <2>3. Places(es2, a, q)
    BY <1>6, <2>1, PlacesMeans
  <2> QED BY <2>1, <2>2, <2>3
<1>18. OwnEntries(a, l2, es2)
  BY <1>7, <1>14, <1>17 DEF OwnEntries
<1> QED BY <1>5, <1>11, <1>18 DEF l2, es2

\* An entry of another address is taken off the list.
LEMMA OthersRemoved ==
    ASSUME NEW es \in Seq(Entry), NEW l \in Seq(Entry), NEW a, NEW k \in 1..Len(es),
           OwnEntries(a, l, es), es[k].address # a
    PROVE  OwnEntries(a, l, RemoveAt(es, k))
<1> DEFINE n == Len(l)
           m == Len(es)
           es2 == RemoveAt(es, k)
<1>1. n \in Nat /\ m \in Nat
  OBVIOUS
<1>2. PICK p \in [1..n -> 1..m] : Places(es, a, p) /\ \A i \in 1..n : l[i] = es[p[i]]
  BY DEF OwnEntries
<1>3. /\ \A i, j \in 1..n : i < j => p[i] < p[j]
      /\ \A i \in 1..n : es[p[i]].address = a
      /\ \A j \in 1..m : es[j].address = a => \E i \in 1..n : p[i] = j
  <2>1. InPlace(es, a, p, n)
    BY <1>1, <1>2, PlacesMeans
  <2> QED BY <2>1 DEF InPlace
<1>6. /\ es2 \in Seq(Entry) /\ Len(es2) = m - 1
      /\ \A i \in 1..m - 1 : es2[i] = IF i < k THEN es[i] ELSE es[i + 1]
  BY RemoveAtFacts
<1>8. k \in 1..m
  OBVIOUS
<1> HIDE DEF n, m, es2
<1>9. \A i \in 1..n : p[i] \in 1..m /\ p[i] # k
  BY <1>2, <1>3
<1> DEFINE Q(j) == IF j < k THEN j ELSE j - 1
           q == [i \in 1..n |-> Q(p[i])]
<1>12. ASSUME NEW j \in 1..m, j # k PROVE Q(j) \in 1..m - 1 /\ es2[Q(j)] = es[j]
  <2>1. Q(j) \in 1..m - 1 /\ (IF Q(j) < k THEN Q(j) ELSE Q(j) + 1) = j
    BY <1>1, <1>8, <1>12
  <2>2. es2[Q(j)] = IF Q(j) < k THEN es[Q(j)] ELSE es[Q(j) + 1]
    BY <1>6, <2>1
  <2> QED BY <2>1, <2>2
<1>13. q \in [1..n -> 1..m - 1] /\ \A i \in 1..n : q[i] = Q(p[i])
  BY <1>9, <1>12
<1>14. ASSUME NEW i \in 1..m, NEW j \in 1..m, i # k, j # k, i < j PROVE Q(i) < Q(j)
  BY <1>1, <1>8, <1>14
<1>15. ASSUME NEW j \in 1..m - 1
       PROVE  \E j2 \in 1..m : j2 # k /\ es2[j] = es[j2] /\ Q(j2) = j
  <2>1. CASE j < k
    <3>1. j \in 1..m /\ j # k /\ Q(j) = j
      BY <1>1, <1>8, <2>1
    <3>2. es2[j] = es[j]
      BY <1>6, <2>1
    <3> QED BY <3>1, <3>2
  <2>2. CASE ~(j < k)
    <3>1. j + 1 \in 1..m /\ j + 1 # k /\ Q(j + 1) = j
      BY <1>1, <1>8, <2>2
    <3> QED BY <1>6, <2>2, <3>1
  <2> QED BY <2>1, <2>2
<1> HIDE DEF q, Q
<1>16. \A i \in 1..n : es2[q[i]] = es[p[i]] /\ l[i] = es2[q[i]]
  BY <1>2, <1>9, <1>12, <1>13
<1>17. \A i, j \in 1..n : i < j => q[i] < q[j]
  BY <1>3, <1>9, <1>13, <1>14
<1>18. ASSUME NEW j \in 1..m - 1, es2[j].address = a PROVE \E i \in 1..n : q[i] = j
  <2>1. PICK j2 \in 1..m : j2 # k /\ es2[j] = es[j2] /\ Q(j2) = j
    BY <1>15
  <2>2. PICK i \in 1..n : p[i] = j2
    BY <1>3, <1>18, <2>1
  <2> QED BY <1>13, <2>1, <2>2
<1>19. Places(es2, a, q) /\ q \in [1..n -> 1..Len(es2)]
  <2>1. q \in [1..n -> 1..Len(es2)]
    BY <1>6, <1>13
  <2>2. InPlace(es2, a, q, n)
    BY <1>3, <1>6, <1>16, <1>17, <1>18 DEF InPlace
  <2> QED BY <1>1, <1>6, <2>1, <2>2, PlacesMeans
<1> QED BY <1>16, <1>19 DEF OwnEntries, n, es2

-----------------------------------------------------------------------------
(* Chains of hooks, and what a further chunk leaves as it was *)

\* Names and numbers are different things.
LEMMA Distinct ==
    /\ \A x \in Nat : x \notin Funs /\ x \notin Replacements /\ x \notin Handlers /\ x # Null
    /\ \A x \in Funs : x \notin Replacements /\ x # Null
    /\ \A x \in Replacements : x \notin Handlers /\ x # Null
BY DobbyAssumption DEF Hooks

Grown(cs2, cs) ==
    Len(cs) \in Nat /\ Len(cs2) = Len(cs) + 1 /\ \A c \in 1..Len(cs) : cs2[c] = cs[c]

\* What the chunks hold stays as it is when one is added.
LEMMA GrownKinds ==
    ASSUME NEW cs, NEW cs2, Grown(cs2, cs)
    PROVE  /\ \A c \in 1..Len(cs) : c \in 1..Len(cs2) /\ c # Len(cs2)
           /\ \A c \in 1..Len(cs2) : c \in 1..Len(cs) \/ c = Len(cs2)
           /\ \A c : IsCopy(c, cs) => IsCopy(c, cs2)
           /\ \A c \in 1..Len(cs) : IsCopy(c, cs2) => IsCopy(c, cs)
           /\ \A c, x : CopyOf(c, x, cs) => CopyOf(c, x, cs2)
           /\ \A x : \A c \in 1..Len(cs) : CopyOf(c, x, cs2) => CopyOf(c, x, cs)
           /\ \A c, h : IsClosure(c, h, cs) => IsClosure(c, h, cs2)
           /\ \A x : IsCode(x, cs) => IsCode(x, cs2)
           /\ \A x, S : OrCode(x, S, cs) => OrCode(x, S, cs2)
<1> DEFINE n == Len(cs)
<1>1. n \in Nat /\ Len(cs2) = n + 1 /\ \A c \in 1..n : cs2[c] = cs[c]
  BY DEF Grown
<1> HIDE DEF n
<1>2. /\ \A c \in 1..n : c \in 1..n + 1 /\ c # n + 1
      /\ \A c \in 1..n + 1 : c \in 1..n \/ c = n + 1
  BY <1>1
<1>3. \A c : IsCopy(c, cs) <=> c \in 1..n /\ cs[c].holds.kind = "copy"
  BY DEF IsCopy, n
<1>4. \A c : IsCopy(c, cs2) <=> c \in 1..n + 1 /\ cs2[c].holds.kind = "copy"
  BY <1>1 DEF IsCopy
<1>5. /\ \A c : IsCopy(c, cs) => IsCopy(c, cs2)
      /\ \A c \in 1..n : IsCopy(c, cs2) => IsCopy(c, cs)
  BY <1>1, <1>2, <1>3, <1>4
<1>6. /\ \A c, x : CopyOf(c, x, cs) => CopyOf(c, x, cs2)
      /\ \A x : \A c \in 1..n : CopyOf(c, x, cs2) => CopyOf(c, x, cs)
  BY <1>1, <1>3, <1>5 DEF CopyOf
<1>7. \A c, h : IsClosure(c, h, cs) => IsClosure(c, h, cs2)
  BY <1>1, <1>2 DEF IsClosure, n
<1>8. \A x : IsCode(x, cs) => IsCode(x, cs2)
  BY <1>1, <1>2 DEF IsCode, n
<1>9. \A x, S : OrCode(x, S, cs) => OrCode(x, S, cs2)
  BY <1>8 DEF OrCode
<1> QED BY <1>1, <1>2, <1>5, <1>6, <1>7, <1>8, <1>9 DEF n

\* A link stays when a chunk is added that is no copy for its closure.
LEMMA GrownLink ==
    ASSUME NEW cs, NEW cs2, Grown(cs2, cs), NEW e, NEW f, NEW next, NEW og,
           Linked(e, f, next, cs, og),
           e.by \in Handlers => ~CopyOf(Len(cs2), e.target, cs2)
    PROVE  Linked(e, f, next, cs2, og)
<1>1. GoesOn(e, f, next, cs2)
  BY GrownKinds DEF Linked, GoesOn, IsCopy, Grown
<1>2. FindsCopy(e, cs2, og)
  <2>1. CASE e.by \in Replacements /\ e.target = e.by /\ og[e.by] = e.relocated
    BY <2>1 DEF FindsCopy
  <2>2. CASE /\ e.by \in Handlers /\ IsClosure(e.target, e.by, cs)
             /\ \A c \in 1..Len(cs) : CopyOf(c, e.target, cs) <=> c = e.relocated
    <3>1. IsClosure(e.target, e.by, cs2)
      BY <2>2, GrownKinds
    <3>2. e.relocated \in 1..Len(cs)
      BY DEF Linked, GoesOn, IsCopy
    <3>3. ASSUME NEW c \in 1..Len(cs2) PROVE CopyOf(c, e.target, cs2) <=> c = e.relocated
      <4>1. CASE c \in 1..Len(cs)
        BY <2>2, <4>1, GrownKinds
      <4>2. CASE c = Len(cs2)
        BY <2>2, <3>2, <4>2, GrownKinds
      <4> QED BY <4>1, <4>2, GrownKinds
    <3> QED BY <2>2, <3>1, <3>3 DEF FindsCopy
  <2> QED BY <2>1, <2>2 DEF Linked, FindsCopy
<1> QED BY <1>1, <1>2 DEF Linked

\* What a link leads to is sound.
LEMMA LinkSound ==
    ASSUME NEW e, NEW f, NEW next, NEW cs, NEW og, Linked(e, f, next, cs, og)
    PROVE  Sound(e.target, cs, og)
<1>1. IsCopy(e.relocated, cs) /\ e.relocated \in 1..Len(cs)
  BY DEF Linked, GoesOn, IsCopy
<1>2. CASE e.by \in Replacements /\ e.target = e.by /\ og[e.by] = e.relocated
  <2>1. e.relocated # 0
    BY <1>1
  <2>2. e.target \notin 1..Len(cs)
    BY <1>2, Distinct
  <2> QED BY <1>2, <2>1, <2>2 DEF Sound
<1>3. CASE /\ e.by \in Handlers /\ IsClosure(e.target, e.by, cs)
           /\ \A c \in 1..Len(cs) : CopyOf(c, e.target, cs) <=> c = e.relocated
  <2>1. e.target \in 1..Len(cs) /\ CopyOf(e.relocated, e.target, cs)
    BY <1>1, <1>3 DEF IsClosure
  <2>2. e.target \notin Replacements
    BY <2>1, Distinct
  <2> QED BY <1>1, <2>1, <2>2 DEF Sound
<1> QED BY <1>2, <1>3 DEF Linked, FindsCopy

\* The body of a function is no null address.
LEMMA SoundFun == ASSUME NEW f \in Funs, NEW cs, NEW og PROVE Sound(f, cs, og)
<1>1. f \notin Replacements /\ f \notin 1..Len(cs)
  BY Distinct
<1> QED BY <1>1 DEF Sound

\* Wherever a function with unbroken chains goes on is sound.
LEMMA ChainSound ==
    ASSUME NEW f \in Funs, NEW l \in Seq(Entry), NEW b, NEW cs, NEW og, Chained(f, l, b, cs, og),
           NEW n \in 0..Len(l)
    PROVE  Sound(Behind(f, Older(l, n)), cs, og)
<1>1. CASE n = Len(l)
  BY <1>1, SoundFun DEF Behind, Older
<1>2. CASE n # Len(l)
  <2>1. n + 1 \in 1..Len(l)
    BY <1>2
  <2>2. Sound(l[n + 1].target, cs, og)
    BY <2>1, LinkSound DEF Chained
  <2>3. Behind(f, Older(l, n)) = f \/ Behind(f, Older(l, n)) = l[n + 1].target
    BY <1>2 DEF Behind, Older
  <2> QED BY <2>2, <2>3, SoundFun
<1> QED BY <1>1, <1>2

\* The address of a place stays sound when a chunk is added.
LEMMA GrownSound ==
    ASSUME NEW cs, NEW cs2, Grown(cs2, cs), NEW og, NEW x, Sound(x, cs, og),
           x \in Funs \/ IsCode(x, cs)
    PROVE  Sound(x, cs2, og)
<1>1. CASE x \in Funs
  BY <1>1, SoundFun
<1>2. CASE x \in Replacements
  <2>1. x \notin 1..Len(cs2)
    BY <1>2, Distinct
  <2> QED BY <1>2, <2>1 DEF Sound
<1>3. CASE x \in 1..Len(cs)
  <2>1. x \notin Replacements /\ cs2[x] = cs[x]
    BY <1>3, Distinct DEF Grown
  <2>2. \A c \in 1..Len(cs) : CopyOf(c, x, cs) => c \in 1..Len(cs2) /\ CopyOf(c, x, cs2)
    BY GrownKinds
  <2> QED BY <1>3, <2>1, <2>2 DEF Sound
<1> QED BY <1>1, <1>2, <1>3 DEF IsCode

-----------------------------------------------------------------------------
(* The calls keep the invariant *)

\* While only one call moves on, it is enough to look at that call.
LEMMA CallMoves ==
    ASSUME NEW L, HookInv(L), NEW t \in Threads, NEW c2 \in Calls \cup {Null},
           call' = [call EXCEPT ![t] = c2], UNCHANGED <<unpatched, dead>>,
           c2 # Null => CallInv(c2, L, chunks, prologue, starved),
           (c2 # Null /\ starved = {} /\ c2.at \in {"replacement", "chunk"}) =>
               Sound(c2.where, chunks, origin)
    PROVE  HookInv(L)'
<1>1. UNCHANGED <<prologue, bytes, pages, chunks, bridge, entries, op, starved, origin, live, dead>>
  BY DEF unpatched, clientVars
<1>2. HookTypeOK'
  BY <1>1 DEF HookInv, HookTypeOK
<1>3. \A u \in Threads : call'[u] = IF u = t THEN c2 ELSE call[u]
  BY DEF HookInv, HookTypeOK
<1>4. /\ EntriesInv(L)' /\ ChainsInv(L)' /\ OpInv(L)' /\ CodeInv' /\ SavedInv(entries, chunks)'
  <2>1. InEffect' = InEffect
    BY <1>1 DEF InEffect, Pending
  <2>2. EntriesInv(L)'
    BY <1>1, <2>1 DEF HookInv, EntriesInv
  <2>3. ChainsInv(L)' /\ CodeInv' /\ SavedInv(entries, chunks)'
    BY <1>1 DEF HookInv, ChainsInv, CodeInv
  <2>4. OpInv(L)'
    BY <1>1 DEF HookInv, OpInv, Free, Target
  <2> QED BY <2>2, <2>3, <2>4
<1>5. SoundInv'
  BY <1>1, <1>3 DEF HookInv, SoundInv
<1>6. \A u \in Threads : call'[u] # Null => CallInv(call'[u], L, chunks', prologue', starved')
  BY <1>1, <1>3 DEF HookInv
<1> QED BY <1>2, <1>4, <1>5, <1>6 DEF HookInv

\* What Go does to the record of a call.
Kind(target) == IF target \in Funs THEN "body"
                ELSE IF target \in Replacements THEN "replacement" ELSE "chunk"
Gone(c, target, ran) == [c EXCEPT !.ran = ran, !.where = target, !.at = Kind(target)]

\* What Go does to the record of a call.
LEMMA GoFacts ==
    ASSUME HookTypeOK, NEW t \in Threads, call[t] # Null, NEW target \in Funs \cup Targets,
           NEW ran \in Seq(Hooks), Go(t, target, ran)
    PROVE  LET c2 == Gone(call[t], target, ran)
           IN /\ c2 \in Calls /\ call' = [call EXCEPT ![t] = c2]
              /\ c2.fun = call[t].fun /\ c2.clean = call[t].clean /\ c2.ran = ran /\ c2.where = target
              /\ c2.at = Kind(target)
<1> DEFINE at == IF target \in Funs THEN "body"
                 ELSE IF target \in Replacements THEN "replacement" ELSE "chunk"
           c == call[t]
           c2 == [c EXCEPT !.ran = ran, !.where = target, !.at = at]
<1>1. c \in Calls
  BY DEF HookTypeOK
<1>2. at \in {"body", "replacement", "chunk"}
  OBVIOUS
<1>4. call' = [call EXCEPT ![t].ran = ran, ![t].where = target, ![t].at = at]
  BY DEF Go
<1> HIDE DEF at
<1>5. call' = [call EXCEPT ![t] = c2]
  BY <1>4 DEF HookTypeOK
<1>6. c2 \in Calls
  BY <1>1, <1>2 DEF Calls
<1>7. /\ c2.fun = c.fun /\ c2.clean = c.clean /\ c2.ran = ran /\ c2.where = target /\ c2.at = at
  BY <1>1 DEF Calls
<1> HIDE DEF c2
<1>8. c2 = Gone(call[t], target, ran)
  BY DEF c2, at, Gone, Kind
<1> QED BY <1>5, <1>6, <1>7, <1>8 DEF at, Kind

\* A call goes on to a place that is there, is sound and is the next on its way.
LEMMA GoKeeps ==
    ASSUME NEW L \in [Funs -> Seq(Entry)], HookInv(L), NEW t \in Threads, call[t] # Null,
           NEW target, OrCode(target, Funs, chunks), chunks \in Seq(Chunk),
           NEW ran \in Seq(Hooks), Go(t, target, ran), UNCHANGED <<unpatched, dead>>,
           starved = {} => Sound(target, chunks, origin),
           (call[t].clean /\ call[t].fun \notin starved) =>
             /\ Len(ran) <= Len(L[call[t].fun])
             /\ \A i \in 1..Len(ran) : ran[i] = L[call[t].fun][i].by
             /\ \/ target = Behind(call[t].fun, Older(L[call[t].fun], Len(ran)))
                \/ Len(ran) # 0 /\ target = L[call[t].fun][Len(ran)].relocated
    PROVE  HookInv(L)'
<1> DEFINE c == call[t]
           l == L[c.fun]
           n == Len(ran)
<1>1. c \in Calls /\ c.fun \in Funs /\ HookTypeOK
  BY DEF HookInv, HookTypeOK, Calls
<1>2. target \in Funs \cup Targets /\ (target \notin Funs /\ target \notin Replacements =>
                                         target \in 1..Len(chunks))
  BY DEF OrCode, IsCode, Targets, Hooks
<1> DEFINE c2 == Gone(c, target, ran)
<1>3. /\ c2 \in Calls /\ call' = [call EXCEPT ![t] = c2]
      /\ c2.fun = c.fun /\ c2.clean = c.clean /\ c2.ran = ran /\ c2.where = target
      /\ c2.at = Kind(target)
  BY <1>1, <1>2, GoFacts
<1> HIDE DEF c2
<1>8. c2.at = IF target \in Funs THEN "body"
              ELSE IF target \in Replacements THEN "replacement" ELSE "chunk"
  BY <1>3 DEF Kind
<1>4. l \in Seq(Entry) /\ Len(l) \in Nat /\ n \in Nat
  BY <1>1
<1>5. ASSUME c2.clean, c2.fun \notin starved PROVE OnItsWay(c2, L[c2.fun])
  <2>1. /\ n <= Len(l) /\ \A i \in 1..n : ran[i] = l[i].by
        /\ \/ target = Behind(c.fun, Older(l, n))
           \/ n # 0 /\ target = l[n].relocated
    BY <1>3, <1>5
  <2>2. ASSUME n # 0 PROVE l[n].relocated \in Nat
    <3>1. n \in 1..Len(l)
      BY <1>4, <2>1, <2>2
    <3>2. l[n] \in Entry
      BY <1>4, <3>1
    <3> QED BY <3>2 DEF Entry
  <2>3. c2.at \in {"replacement", "body"} => target = Behind(c.fun, Older(l, n))
    <3>1. c2.at \in {"replacement", "body"} => target \notin Nat
      BY <1>8, Distinct
    <3> QED BY <2>1, <2>2, <3>1
  <2>4. ASSUME c2.at = "chunk"
        PROVE  \/ target = Older(l, n) /\ n < Len(l)
               \/ n # 0 /\ target = l[n].relocated
    <3>1. target \notin Funs
      BY <1>8, <2>4
    <3>2. CASE target = Behind(c.fun, Older(l, n))
      <4>1. Older(l, n) # Null /\ target = Older(l, n)
        BY <1>1, <3>1, <3>2, SMTT(20) DEF Behind
      <4>2. n # Len(l)
        BY <4>1 DEF Older
      <4>3. n < Len(l)
        <5> HIDE DEF l, n
        <5> QED BY <1>4, <2>1, <4>2
      <4> QED BY <4>1, <4>3
    <3> QED BY <2>1, <3>2
  <2> HIDE DEF l, n
  <2>5. c2.ran = ran /\ Len(c2.ran) = n /\ c2.where = target /\ c2.fun = c.fun /\ L[c2.fun] = l
    BY <1>3 DEF n, l
  <2> QED BY <2>1, <2>3, <2>4, <2>5 DEF OnItsWay
<1>6. CallInv(c2, L, chunks, prologue, starved)
  <2>1. c2.at # "astray"
    BY <1>8
  <2>2. (c2.at = "replacement" => c2.where \in Replacements)
        /\ (c2.at = "body" => c2.where \in Funs)
        /\ (c2.at = "chunk" => c2.where \in 1..Len(chunks))
    BY <1>2, <1>3, <1>8
  <2> QED BY <1>5, <2>1, <2>2 DEF CallInv
<1>7. starved = {} => Sound(c2.where, chunks, origin)
  BY <1>3
<1> QED BY <1>3, <1>6, <1>7, CallMoves

\* What Stop does to the record of a call.
LEMMA StopKeeps ==
    ASSUME NEW L, HookInv(L), NEW t \in Threads, call[t] # Null,
           NEW at \in {"returned", "astray"}, NEW where \in Funs \cup {Null}, Stop(t, at, where),
           at = "astray" => where \in Funs /\ HasBranch(prologue[where]),
           UNCHANGED <<unpatched, dead>>
    PROVE  HookInv(L)'
<1> DEFINE c == call[t]
           c2 == [c EXCEPT !.at = at, !.where = where]
<1>1. c \in Calls
  BY DEF HookInv, HookTypeOK
<1>2. c2 \in Calls
  BY <1>1 DEF Calls
<1>5. call' = [call EXCEPT ![t] = c2]
  BY DEF Stop, HookInv, HookTypeOK
<1>6. CallInv(c, L, chunks, prologue, starved)
  BY DEF HookInv
<1>7. c2.fun = c.fun /\ c2.clean = c.clean /\ c2.ran = c.ran /\ c2.where = where /\ c2.at = at
  BY <1>1 DEF Calls
<1> HIDE DEF c2
<1>8. CallInv(c2, L, chunks, prologue, starved)
  BY <1>6, <1>7 DEF CallInv, OnItsWay
<1> QED BY <1>2, <1>5, <1>7, <1>8, CallMoves

\* A copy needs no further address.
LEMMA SoundCopy == ASSUME NEW cs, NEW og, NEW c, IsCopy(c, cs) PROVE Sound(c, cs, og)
<1>1. c \in 1..Len(cs) /\ cs[c].holds.kind # "closure" /\ c \notin Replacements
  BY Distinct DEF IsCopy
<1> QED BY <1>1 DEF Sound

\* A call at a place x on its way, behind n hooks: the next hook's replacement,
\* or its closure, or the copy of the n-th.
LEMMA AtReplacement ==
    ASSUME NEW f \in Funs, NEW l \in Seq(Entry), NEW b, NEW cs, NEW og, Chained(f, l, b, cs, og),
           NEW n \in Nat, n <= Len(l), NEW x \in Replacements, x = Behind(f, Older(l, n))
    PROVE  n + 1 \in 1..Len(l) /\ l[n + 1].by = x /\ l[n + 1].relocated = og[x]
<1>1. n # Len(l) /\ l[n + 1].target = x
  BY Distinct DEF Behind, Older
<1>2. n + 1 \in 1..Len(l)
  BY <1>1
<1>3. FindsCopy(l[n + 1], cs, og)
  BY <1>2 DEF Chained, Linked
<1>4. l[n + 1].target \notin 1..Len(cs)
  BY <1>1, Distinct
<1> QED BY <1>1, <1>2, <1>3, <1>4 DEF FindsCopy, IsClosure

\* A call on its way that is at a closure is at the next of the hooks in effect.
LEMMA AtClosure ==
    ASSUME NEW f \in Funs, NEW l \in Seq(Entry), NEW b, NEW cs, NEW og, Chained(f, l, b, cs, og),
           NEW n \in Nat, n <= Len(l), NEW x \in 1..Len(cs), cs[x].holds.kind = "closure",
           (x = Older(l, n) /\ n < Len(l)) \/ (n # 0 /\ x = l[n].relocated),
           NEW c \in 1..Len(cs), CopyOf(c, x, cs)
    PROVE  n + 1 \in 1..Len(l) /\ l[n + 1].by = cs[x].holds.by /\ l[n + 1].relocated = c
<1>1. ASSUME n # 0, x = l[n].relocated PROVE FALSE
  <2>1. n \in 1..Len(l)
    BY <1>1
  <2>2. IsCopy(l[n].relocated, cs)
    BY <2>1 DEF Chained, Linked, GoesOn
  <2> QED BY <1>1, <2>2 DEF IsCopy
<1>2. n # Len(l) /\ l[n + 1].target = x
  BY <1>1 DEF Older
<1>3. n + 1 \in 1..Len(l)
  BY <1>2
<1>4. FindsCopy(l[n + 1], cs, og)
  BY <1>3 DEF Chained, Linked
<1>5. l[n + 1].target \notin Replacements
  BY <1>2, Distinct
<1> QED BY <1>2, <1>3, <1>4, <1>5 DEF FindsCopy, IsClosure

\* A call on its way that is at a copy goes on to the next hook or to the body.
LEMMA AtCopy ==
    ASSUME NEW f \in Funs, NEW l \in Seq(Entry), NEW b, NEW cs, NEW og, Chained(f, l, b, cs, og),
           NEW n \in Nat, n <= Len(l), NEW x \in 1..Len(cs), cs[x].holds.kind = "copy",
           (x = Older(l, n) /\ n < Len(l)) \/ (n # 0 /\ x = l[n].relocated)
    PROVE  cs[x].holds.to = Behind(f, Older(l, n))
<1>1. ASSUME x = Older(l, n), n < Len(l) PROVE FALSE
  <2>1. n + 1 \in 1..Len(l) /\ l[n + 1].target = x
    BY <1>1 DEF Older
  <2>2. FindsCopy(l[n + 1], cs, og)
    BY <2>1 DEF Chained, Linked
  <2>3. l[n + 1].target \notin Replacements
    BY <2>1, Distinct
  <2> QED BY <2>1, <2>2, <2>3 DEF FindsCopy, IsClosure
<1>2. n \in 1..Len(l) /\ x = l[n].relocated
  BY <1>1
<1> QED BY <1>2 DEF Chained, Linked, GoesOn

\* The hooks that ran, and one more.
LEMMA RanOneMore ==
    ASSUME NEW l \in Seq(Entry), NEW ran \in Seq(Hooks), Len(ran) + 1 \in 1..Len(l),
           \A i \in 1..Len(ran) : ran[i] = l[i].by, NEW h \in Hooks, h = l[Len(ran) + 1].by
    PROVE  /\ Append(ran, h) \in Seq(Hooks) /\ Len(Append(ran, h)) = Len(ran) + 1
           /\ Len(Append(ran, h)) <= Len(l) /\ Len(Append(ran, h)) # 0
           /\ \A i \in 1..Len(Append(ran, h)) : Append(ran, h)[i] = l[i].by
<1> DEFINE n == Len(ran)
           r == Append(ran, h)
<1>1. /\ r \in Seq(Hooks) /\ Len(r) = n + 1 /\ r[n + 1] = h /\ \A i \in 1..n : r[i] = ran[i]
  BY PushFacts
<1>2. n \in Nat /\ n + 1 <= Len(l) /\ n + 1 # 0 /\ \A i \in 1..n + 1 : i \in 1..n \/ i = n + 1
  OBVIOUS
<1>3. h = l[n + 1].by /\ \A i \in 1..n : ran[i] = l[i].by
  OBVIOUS
<1> HIDE DEF r, n
<1>4. \A i \in 1..n + 1 : r[i] = l[i].by
  BY <1>1, <1>2, <1>3
<1> QED BY <1>1, <1>2, <1>4 DEF r, n

\* Where the first bytes of a function lead.
LEMMA LeadsFacts ==
    ASSUME NEW L \in [Funs -> Seq(Entry)], HookInv(L), NEW f \in Funs
    PROVE  /\ OrCode(LeadsTo(f), Funs, chunks)
           /\ f \notin starved => /\ LeadsTo(f) = Behind(f, Older(L[f], 0))
                                  /\ Sound(LeadsTo(f), chunks, origin)
<1>1. 1 \in 0..Span /\ 1 \in 1..JumpSize
  BY SpanType
<1>2. OrCode(LeadsTo(f), Funs, chunks)
  <2>1. OrCode(bytes[f][1].by, {Null}, chunks)
    BY <1>1 DEF HookInv, CodeInv
  <2> QED BY <2>1 DEF OrCode, LeadsTo, JumpsTo
<1>3. ASSUME f \notin starved
      PROVE  LeadsTo(f) = Behind(f, Older(L[f], 0)) /\ Sound(LeadsTo(f), chunks, origin)
  <2>1. Chained(f, L[f], bytes[f], chunks, origin)
    BY <1>3 DEF HookInv, ChainsInv
  <2>2. bytes[f][1] = [by |-> Older(L[f], 0), k |-> 1]
    BY <1>1, <2>1 DEF Chained, HeadIs
  <2>3. LeadsTo(f) = Behind(f, Older(L[f], 0))
    BY <2>2 DEF LeadsTo, JumpsTo, Behind
  <2>4. 0 \in 0..Len(L[f]) /\ L[f] \in Seq(Entry)
    OBVIOUS
  <2> QED BY <2>1, <2>3, <2>4, ChainSound
<1> QED BY <1>2, <1>3

\* A step of a call.
LEMMA CallStep ==
    ASSUME NEW L \in [Funs -> Seq(Entry)], ArenaInv, HookInv(L), NEW t \in Threads, InCall(t)
    PROVE  HookInv(L)'
<1> DEFINE c == call[t]
           f == c.fun
           l == L[f]
           n == Len(c.ran)
           Clean == c.clean /\ f \notin starved
<1>1. chunks \in Seq(Chunk) /\ HookTypeOK /\ bytes \in [Funs -> [0..Span -> CodeByte]]
  BY DEF ArenaInv, DobbyTypeOK, HookInv
<1>2. ASSUME c # Null
      PROVE  /\ c \in Calls /\ f \in Funs /\ l \in Seq(Entry) /\ n \in Nat
             /\ c.ran \in Seq(Hooks)
             /\ CallInv(c, L, chunks, prologue, starved)
             /\ Clean => Chained(f, l, bytes[f], chunks, origin) /\ OnItsWay(c, l)
             /\ f \notin starved => Chained(f, l, bytes[f], chunks, origin)
  <2>1. c \in Calls
    BY <1>1, <1>2 DEF HookTypeOK
  <2>2. f \in Funs /\ c.ran \in Seq(Hooks)
    BY <2>1 DEF Calls
  <2>3. CallInv(c, L, chunks, prologue, starved)
    BY <1>2 DEF HookInv
  <2>4. f \notin starved => Chained(f, l, bytes[f], chunks, origin)
    BY <2>2 DEF HookInv, ChainsInv
  <2> QED BY <2>1, <2>2, <2>3, <2>4 DEF CallInv
<1>3. ASSUME EnterHead(t) PROVE HookInv(L)'
  <2>1. c # Null /\ Go(t, LeadsTo(f), << >>) /\ UNCHANGED <<unpatched, dead>>
    BY <1>3 DEF EnterHead, At
  <2>2. /\ OrCode(LeadsTo(f), Funs, chunks)
        /\ f \notin starved => /\ LeadsTo(f) = Behind(f, Older(l, 0))
                               /\ Sound(LeadsTo(f), chunks, origin)
    BY <1>2, <2>1, LeadsFacts
  <2>5. << >> \in Seq(Hooks) /\ Len(<< >>) = 0 /\ 0 <= Len(l)
    BY <1>2, <2>1
  <2> HIDE DEF l, f
  <2>6. /\ starved = {} => Sound(LeadsTo(f), chunks, origin)
        /\ Clean => /\ Len(<< >>) <= Len(l) /\ \A i \in 1..Len(<< >>) : << >>[i] = l[i].by
                    /\ LeadsTo(f) = Behind(f, Older(l, Len(<< >>)))
    BY <2>2, <2>5
  <2> QED BY <1>1, <2>1, <2>2, <2>5, <2>6, GoKeeps DEF l, f
<1>4. ASSUME Replace(t) PROVE HookInv(L)'
  BY <1>4, StopKeeps DEF Replace, At
<1>5. ASSUME CallOrigin(t) PROVE HookInv(L)'
  <2> DEFINE r == c.where
             ran2 == Append(c.ran, r)
  <2>1. c # Null /\ c.at = "replacement" /\ origin[r] # 0 /\ Go(t, origin[r], ran2)
        /\ UNCHANGED <<unpatched, dead>>
    BY <1>5 DEF CallOrigin, At
  <2>2. r \in Replacements /\ r \in Hooks
    BY <1>2, <2>1 DEF CallInv, Hooks
  <2>3. IsCopy(origin[r], chunks)
    BY <2>1, <2>2 DEF HookInv, CodeInv
  <2>4. OrCode(origin[r], Funs, chunks) /\ Sound(origin[r], chunks, origin)
    BY <2>3, SoundCopy DEF OrCode, IsCode, IsCopy
  <2>5. ran2 \in Seq(Hooks)
    BY <1>2, <2>1, <2>2, PushFacts
  <2>6. ASSUME Clean
        PROVE  /\ Len(ran2) <= Len(l) /\ \A i \in 1..Len(ran2) : ran2[i] = l[i].by
               /\ Len(ran2) # 0 /\ origin[r] = l[Len(ran2)].relocated
    <3>1. /\ Chained(f, l, bytes[f], chunks, origin) /\ n <= Len(l)
          /\ (\A i \in 1..n : c.ran[i] = l[i].by) /\ r = Behind(f, Older(l, n))
      BY <1>2, <2>1, <2>6 DEF OnItsWay
    <3>2. n + 1 \in 1..Len(l) /\ l[n + 1].by = r /\ l[n + 1].relocated = origin[r]
      <4>1. f \in Funs /\ l \in Seq(Entry) /\ n \in Nat
        BY <1>2, <2>1, SMTT(20)
      <4> HIDE DEF f, l, n, r
      <4> QED BY <2>2, <3>1, <4>1, AtReplacement
    <3>3. /\ Len(ran2) = n + 1 /\ Len(ran2) <= Len(l) /\ Len(ran2) # 0
          /\ \A i \in 1..Len(ran2) : ran2[i] = l[i].by
      BY <1>2, <2>1, <2>2, <3>1, <3>2, RanOneMore
    <3> QED BY <3>2, <3>3
  <2> HIDE DEF l, r, ran2
  <2> QED BY <1>1, <2>1, <2>4, <2>5, <2>6, GoKeeps DEF l, f
<1>6. ASSUME ForwardHandler(t) PROVE HookInv(L)'
  <2> DEFINE x == c.where
             h == chunks[x].holds.by
             ran2 == Append(c.ran, h)
  <2>1. /\ c # Null /\ c.at = "chunk" /\ chunks[x].holds.kind = "closure"
        /\ UNCHANGED <<unpatched, dead>>
    BY <1>6 DEF ForwardHandler, InChunk, At
  <2>2. PICK d \in Hops(t) : Go(t, d, ran2)
    BY <1>6 DEF ForwardHandler, Holds
  <2>3. x \in 1..Len(chunks)
    BY <1>2, <2>1 DEF CallInv
  <2>4. d \in 1..Len(chunks) /\ CopyOf(d, x, chunks) /\ IsCopy(d, chunks)
    BY <1>1, <2>2 DEF Hops, CopyOf, IsCopy
  <2>5. OrCode(d, Funs, chunks) /\ Sound(d, chunks, origin)
    BY <2>4, SoundCopy DEF OrCode, IsCode
  <2>6. h \in Hooks
    <3>1. chunks[x] \in Chunk
      BY <1>1, <2>3
    <3>2. chunks[x].holds \in Holding
      BY <3>1 DEF Chunk
    <3> QED BY <2>1, <3>2 DEF Holding
  <2>7. ran2 \in Seq(Hooks)
    BY <1>2, <2>1, <2>6, PushFacts
  <2>8. ASSUME Clean
        PROVE  /\ Len(ran2) <= Len(l) /\ \A i \in 1..Len(ran2) : ran2[i] = l[i].by
               /\ Len(ran2) # 0 /\ d = l[Len(ran2)].relocated
    <3>1. /\ Chained(f, l, bytes[f], chunks, origin) /\ n <= Len(l)
          /\ \A i \in 1..n : c.ran[i] = l[i].by
          /\ (x = Older(l, n) /\ n < Len(l)) \/ (n # 0 /\ x = l[n].relocated)
      BY <1>2, <2>1, <2>8 DEF OnItsWay
    <3>2. n + 1 \in 1..Len(l) /\ l[n + 1].by = h /\ l[n + 1].relocated = d
      <4>1. f \in Funs /\ l \in Seq(Entry) /\ n \in Nat
        BY <1>2, <2>1
      <4>2. chunks[x].holds.kind = "closure"
        BY <2>1
      <4> HIDE DEF f, l, n, x
      <4> QED BY <2>3, <2>4, <3>1, <4>1, <4>2, AtClosure
    <3>3. /\ Len(ran2) = n + 1 /\ Len(ran2) <= Len(l) /\ Len(ran2) # 0
          /\ \A i \in 1..Len(ran2) : ran2[i] = l[i].by
      BY <1>2, <2>1, <2>6, <3>1, <3>2, RanOneMore
    <3> QED BY <3>2, <3>3
  <2> HIDE DEF l, x, h, ran2
  <2> QED BY <1>1, <2>1, <2>2, <2>5, <2>7, <2>8, GoKeeps DEF l, f
<1>7. ASSUME RunCopy(t) PROVE HookInv(L)'
  <2> DEFINE x == c.where
             to == chunks[x].holds.to
  <2>1. /\ c # Null /\ c.at = "chunk" /\ chunks[x].holds.kind = "copy"
        /\ Go(t, to, c.ran) /\ UNCHANGED <<unpatched, dead>>
    BY <1>7 DEF RunCopy, InChunk, At, Holds
  <2>2. x \in 1..Len(chunks)
    BY <1>2, <2>1 DEF CallInv
  <2>3. IsCopy(x, chunks)
    BY <2>1, <2>2 DEF IsCopy
  <2>4. OrCode(to, Funs, chunks) /\ (starved = {} => Sound(to, chunks, origin))
    BY <2>2, <2>3 DEF HookInv, CodeInv, CopyInv, SoundInv
  <2>5. ASSUME Clean
        PROVE  /\ n <= Len(l) /\ \A i \in 1..n : c.ran[i] = l[i].by
               /\ to = Behind(f, Older(l, n))
    <3>1. /\ Chained(f, l, bytes[f], chunks, origin) /\ n <= Len(l)
          /\ \A i \in 1..n : c.ran[i] = l[i].by
          /\ (x = Older(l, n) /\ n < Len(l)) \/ (n # 0 /\ x = l[n].relocated)
      BY <1>2, <2>1, <2>5 DEF OnItsWay
    <3> QED BY <1>2, <2>1, <2>2, <3>1, AtCopy, SMTT(20)
  <2> HIDE DEF l, x, to
  <2> QED BY <1>1, <1>2, <2>1, <2>4, <2>5, GoKeeps DEF l, f, n
<1>8. ASSUME GoAstray(t) PROVE HookInv(L)'
  <2> DEFINE x == c.where
             g == chunks[x].holds.fun
  <2>1. /\ c # Null /\ c.at = "chunk" /\ chunks[x].holds.kind = "copy"
        /\ chunks[x].holds.misled # {}
        /\ Stop(t, "astray", g) /\ UNCHANGED <<unpatched, dead>>
    BY <1>8 DEF GoAstray, InChunk, At, Holds
  <2>2. x \in 1..Len(chunks)
    BY <1>2, <2>1 DEF CallInv
  <2>3. IsCopy(x, chunks)
    BY <2>1, <2>2 DEF IsCopy
  <2>4. HasBranch(prologue[g])
    BY <2>1, <2>2, <2>3 DEF HookInv, CodeInv, CopyInv
  <2>5. g \in Funs
    <3>1. chunks[x] \in Chunk
      BY <1>1, <2>2
    <3>2. chunks[x].holds \in Holding
      BY <3>1 DEF Chunk
    <3> QED BY <2>1, <3>2 DEF Holding
  <2> HIDE DEF x, g
  <2> QED BY <2>1, <2>4, <2>5, StopKeeps
<1>9. ASSUME Crash(t) PROVE HookInv(L)'
  <2>2. UNCHANGED <<prologue, bytes, pages, chunks, bridge, entries, op, starved, origin, live, call>>
    BY <1>9 DEF Crash, unpatched, clientVars
  <2>3. SoundInv'
    BY <2>2 DEF HookInv, SoundInv
  <2>4. InEffect' = InEffect
    BY <2>2 DEF InEffect, Pending
  <2>5. EntriesInv(L)' /\ HookTypeOK'
    BY <2>2, <2>4 DEF HookInv, EntriesInv, HookTypeOK
  <2>6. ChainsInv(L)' /\ CodeInv' /\ SavedInv(entries, chunks)'
    BY <2>2 DEF HookInv, ChainsInv, CodeInv
  <2>7. OpInv(L)'
    BY <2>2 DEF HookInv, OpInv, Free, Target
  <2>8. (\A u \in Threads : call[u] # Null => CallInv(call[u], L, chunks, prologue, starved))'
    BY <2>2 DEF HookInv
  <2> QED BY <2>3, <2>5, <2>6, <2>7, <2>8 DEF HookInv
<1>10. ASSUME Return(t) PROVE HookInv(L)'
  BY <1>10, CallMoves DEF Return
<1> QED BY <1>3, <1>4, <1>5, <1>6, <1>7, <1>8, <1>9, <1>10 DEF InCall

\* A call begins.
LEMMA CallBegins ==
    ASSUME NEW L \in [Funs -> Seq(Entry)], HookInv(L), NEW t \in Threads, NEW f \in Funs, Call(t, f)
    PROVE  HookInv(L)'
<1> DEFINE c2 == [fun |-> f, at |-> "head", where |-> Null, ran |-> << >>, clean |-> TRUE]
<1>1. c2 \in Calls
  BY DEF Calls
<1>2. c2.fun = f /\ c2.at = "head" /\ c2.ran = << >> /\ Len(c2.ran) = 0
  OBVIOUS
<1>3. call' = [call EXCEPT ![t] = c2] /\ UNCHANGED <<unpatched, dead>>
  BY DEF Call
<1>4. L[f] \in Seq(Entry) /\ Len(L[f]) \in Nat
  OBVIOUS
<1> HIDE DEF c2
<1>5. CallInv(c2, L, chunks, prologue, starved)
  BY <1>2, <1>4 DEF CallInv, OnItsWay
<1> QED BY <1>1, <1>2, <1>3, <1>5, CallMoves

-----------------------------------------------------------------------------
(* Installing a hook keeps the invariant *)

\* Of the branches copied, calls and jumps with 32 bits are not misled.
LEMMA MisledBranches ==
    ASSUME X86, ArenaInv, NEW f \in Funs,
           Misled(f, Covered(f), AddressFor(CopySize(f))) # {}
    PROVE  HasBranch(prologue[f])
<1> DEFINE s == Instructions(f)
           v == Covered(f)
           relo == AddressFor(CopySize(f))
<1>1. PICK n \in DOMAIN v :
         LET before == SubSeq(v, 1, n - 1)
             orig == FunAt[f] + LengthOf(before)
             here == relo + EmittedLength(before) - JumpSize
         IN  /\ v[n].op \notin {"plain", "unsupported"}
             /\ LandsAt(v[n], orig, here) # orig + v[n].len + v[n].offset
  BY DEF Misled
<1>2. DobbyTypeOK /\ Laid(pages, chunks)
  BY DEF ArenaInv
<1>3. /\ s \in Seq(Insn) /\ CopyFits(s, Shortest(s))
      /\ s = prologue[f] \/ s = HookJump
  BY <1>2, InstructionsType
<1>4. v = Shortest(s)
  BY DEF Covered
<1> HIDE DEF s
<1>5. /\ \E m \in 0..Len(s) : LengthOf(SubSeq(s, 1, m)) >= JumpSize
      /\ \A m \in 0..Len(Shortest(s)) :
           /\ LengthOf(SubSeq(Shortest(s), 1, m)) \in Nat
           /\ EmittedLength(SubSeq(Shortest(s), 1, m)) \in Nat
  BY <1>3 DEF CopyFits
<1>6. PICK m \in 0..Len(s) : DOMAIN Shortest(s) = 1..m /\ \A i \in 1..m : Shortest(s)[i] = s[i]
  BY <1>3, <1>5, ShortestFacts
<1>7. v \in Seq(Insn) /\ CopySize(f) \in 1..PageSize
  BY <1>2, CoveredFacts
<1> DEFINE before == SubSeq(v, 1, n - 1)
           i == v[n]
           a == LengthOf(before)
           b == EmittedLength(before)
<1>8. n \in 1..m /\ i = s[n] /\ i \in Insn /\ n - 1 \in 0..Len(v)
  BY <1>1, <1>4, <1>6, <1>7
<1>9. a \in Nat /\ b \in Nat
  BY <1>4, <1>5, <1>8
<1>10. relo \in Int
  <2>1. PageFor(CopySize(f)) \in 1..Len(pages) + 1 /\ CursorOf(PageFor(CopySize(f))) \in Nat
    BY <1>2, <1>7, PageForFacts DEF Laid, DobbyTypeOK
  <2>2. PageAt(PageFor(CopySize(f))) \in Int
    BY <2>1, DobbyAssumption DEF PageAt
  <2> QED BY <2>1, <2>2 DEF AddressFor
<1>11. FunAt[f] \in Int /\ JumpSize \in Int /\ i.len \in Int /\ i.offset \in Int /\ i.op \in Ops
  <2>1. i.len \in Int /\ i.offset \in Int /\ i.op \in Ops
    BY <1>1, <1>8 DEF Insn, Kinds, Ops
  <2> QED BY <2>1, SpanType, DobbyAssumption
<1>12. /\ i.op # "plain"
       /\ LandsAt(i, FunAt[f] + a, relo + b - JumpSize) # FunAt[f] + a + i.len + i.offset
  BY <1>1
<1> HIDE DEF i, a, b, relo
<1>13. i.op # "rel32"
  <2> SUFFICES ASSUME i.op = "rel32" PROVE FALSE
    OBVIOUS
  <2> DEFINE orig == FunAt[f] + a
             here == relo + b - JumpSize
  <2>1. orig \in Int /\ here \in Int
    BY <1>9, <1>10, <1>11
  <2>2. LandsAt(i, orig, here) = here + i.len + (orig + i.offset - here)
    BY DEF LandsAt
  <2> HIDE DEF orig, here
  <2>3. here + i.len + (orig + i.offset - here) = orig + i.len + i.offset
    BY <1>11, <2>1
  <2> QED BY <1>12, <2>2, <2>3 DEF orig, here
<1>14. i.op \in {"jc8", "jmp8", "jcc32"}
  BY <1>11, <1>12, <1>13 DEF Ops
<1>15. s # HookJump
  <2> SUFFICES ASSUME s = HookJump PROVE FALSE
    OBVIOUS
  <2>1. Len(s) = 1 /\ s[1].op = "rel32"
    BY DEF HookJump
  <2>2. n = 1
    BY <1>8, <1>6, <2>1
  <2> QED BY <1>8, <1>13, <2>1, <2>2
<1>16. n \in DOMAIN s
  BY <1>3, <1>6, <1>8
<1> QED BY <1>3, <1>8, <1>14, <1>15, <1>16 DEF HasBranch

\* A chunk is added: chains, code and calls stay as they are.
LEMMA GrowKeeps ==
    ASSUME NEW L \in [Funs -> Seq(Entry)], HookInv(L), chunks \in Seq(Chunk), Grown(chunks', chunks),
           UNCHANGED <<prologue, bytes, origin, call, dead, live, starved>>,
           IsCopy(Len(chunks'), chunks') =>
             /\ CopyInv(Len(chunks'), chunks', prologue)
             /\ OrCode(chunks'[Len(chunks')].holds.to, Funs, chunks)
             /\ starved = {} => Sound(chunks'[Len(chunks')].holds.to, chunks, origin)
             /\ \A f \in Funs : f \notin starved => \A i \in 1..Len(L[f]) :
                  L[f][i].by \in Handlers => ~CopyOf(Len(chunks'), L[f][i].target, chunks')
    PROVE  /\ HookTypeOK' /\ ChainsInv(L)' /\ CodeInv' /\ SoundInv'
           /\ \A t \in Threads : call'[t] # Null => CallInv(call'[t], L, chunks', prologue', starved')
           /\ SavedInv(entries, chunks')
<1> DEFINE n == Len(chunks)
<1>1. n \in Nat /\ Len(chunks') = n + 1 /\ \A c \in 1..n : chunks'[c] = chunks[c]
  BY DEF Grown
<1>2. HookTypeOK'
  BY DEF HookInv, HookTypeOK
<1>3. ChainsInv(L)'
  <2> SUFFICES ASSUME NEW f \in Funs, f \notin starved
               PROVE  Chained(f, L[f], bytes[f], chunks', origin)
    BY DEF ChainsInv
  <2>1. Chained(f, L[f], bytes[f], chunks, origin)
    BY DEF HookInv, ChainsInv
  <2>2. ASSUME NEW i \in 1..Len(L[f]) PROVE Linked(L[f][i], f, Older(L[f], i), chunks', origin)
    <3>1. Linked(L[f][i], f, Older(L[f], i), chunks, origin)
      BY <2>1 DEF Chained
    <3>2. L[f][i].by \in Handlers => ~CopyOf(Len(chunks'), L[f][i].target, chunks')
      BY DEF CopyOf
    <3> QED BY <3>1, <3>2, GrownLink
  <2> QED BY <2>1, <2>2 DEF Chained
<1>4. CodeInv'
  <2>1. \A f \in Funs, k \in 0..Span : OrCode(bytes[f][k].by, {Null}, chunks')
    BY GrownKinds DEF HookInv, CodeInv
  <2>2. ASSUME NEW c \in 1..Len(chunks'), IsCopy(c, chunks') PROVE CopyInv(c, chunks', prologue)
    <3>1. CASE c \in 1..n
      <4>1. IsCopy(c, chunks)
        BY <2>2, <3>1, GrownKinds
      <4>2. CopyInv(c, chunks, prologue)
        BY <3>1, <4>1 DEF HookInv, CodeInv
      <4>3. chunks[c].holds.closure \in Nat
        <5>1. chunks[c] \in Chunk
          BY <3>1
        <5>2. chunks[c].holds \in Holding /\ chunks[c].holds.kind = "copy"
          BY <4>1, <5>1 DEF Chunk, IsCopy
        <5> QED BY <5>2 DEF Holding
      <4>4. chunks'[c] = chunks[c]
        BY <1>1, <3>1
      <4>5. chunks[c].holds.closure <= Len(chunks')
        BY <1>1, <4>2, <4>3 DEF CopyInv
      <4>6. OrCode(chunks[c].holds.to, Funs, chunks')
        BY <4>2, GrownKinds DEF CopyInv
      <4> QED BY <4>2, <4>4, <4>5, <4>6 DEF CopyInv
    <3>2. CASE c = Len(chunks')
      BY <2>2, <3>2
    <3> QED BY <3>1, <3>2, GrownKinds
  <2>3. \A r \in Replacements : origin[r] = 0 \/ IsCopy(origin[r], chunks')
    BY GrownKinds DEF HookInv, CodeInv
  <2> QED BY <2>1, <2>2, <2>3 DEF CodeInv
<1>5. SoundInv'
  <2> SUFFICES ASSUME starved = {}
               PROVE  /\ \A c \in 1..Len(chunks') :
                           IsCopy(c, chunks') => Sound(chunks'[c].holds.to, chunks', origin)
                      /\ \A t \in Threads : call[t] # Null /\ call[t].at \in {"replacement", "chunk"} =>
                           Sound(call[t].where, chunks', origin)
    BY DEF SoundInv
  <2>2. ASSUME NEW c \in 1..Len(chunks'), IsCopy(c, chunks')
        PROVE  Sound(chunks'[c].holds.to, chunks', origin)
    <3>1. CASE c \in 1..n
      <4>1. IsCopy(c, chunks) /\ chunks'[c] = chunks[c]
        BY <1>1, <2>2, <3>1, GrownKinds
      <4>2. OrCode(chunks[c].holds.to, Funs, chunks) /\ Sound(chunks[c].holds.to, chunks, origin)
        BY <3>1, <4>1 DEF HookInv, CodeInv, CopyInv, SoundInv
      <4> QED BY <4>1, <4>2, GrownSound DEF OrCode
    <3>2. CASE c = Len(chunks')
      BY <2>2, <3>2, GrownSound DEF OrCode
    <3> QED BY <3>1, <3>2, GrownKinds
  <2>3. ASSUME NEW t \in Threads, call[t] # Null, call[t].at \in {"replacement", "chunk"}
        PROVE  Sound(call[t].where, chunks', origin)
    <3>1. Sound(call[t].where, chunks, origin)
      BY <2>3 DEF HookInv, SoundInv
    <3>2. CallInv(call[t], L, chunks, prologue, starved)
      BY <2>3 DEF HookInv
    <3>3. IsCode(call[t].where, chunks)
      BY <2>3, <3>2 DEF CallInv, IsCode
    <3> QED BY <3>1, <3>3, GrownSound
  <2> QED BY <2>2, <2>3
<1>6. ASSUME NEW t \in Threads, call[t] # Null
      PROVE  CallInv(call[t], L, chunks', prologue, starved)
  <2>1. CallInv(call[t], L, chunks, prologue, starved)
    BY <1>6 DEF HookInv
  <2> QED BY <2>1, GrownKinds DEF CallInv
<1>7. SavedInv(entries, chunks')
  <2> SUFFICES ASSUME NEW i \in 1..Len(entries), NEW k \in 1..Len(entries[i].saved)
               PROVE  OrCode(entries[i].saved[k].by, {Null}, chunks')
    BY DEF SavedInv
  <2>1. OrCode(entries[i].saved[k].by, {Null}, chunks)
    BY DEF HookInv, SavedInv
  <2> QED BY <2>1, GrownKinds
<1> QED BY <1>2, <1>3, <1>4, <1>5, <1>6, <1>7

\* What does not read the client's call nor the list stays, as it is.
LEMMA OnlyOpChanges ==
    ASSUME NEW L, HookInv(L),
           UNCHANGED <<prologue, bytes, chunks, entries, origin, call, live, starved>>
    PROVE  /\ HookTypeOK' /\ ChainsInv(L)' /\ CodeInv' /\ SavedInv(entries, chunks)' /\ SoundInv'
           /\ \A t \in Threads : call'[t] # Null => CallInv(call'[t], L, chunks', prologue', starved')
<1>1. HookTypeOK' /\ CodeInv'
  BY DEF HookInv, HookTypeOK, CodeInv
<1>2. ChainsInv(L)' /\ SavedInv(entries, chunks)'
  BY DEF HookInv, ChainsInv
<1>3. SoundInv'
  BY DEF HookInv, SoundInv
<1>4. \A t \in Threads : call'[t] # Null => CallInv(call'[t], L, chunks', prologue', starved')
  BY DEF HookInv
<1> QED BY <1>1, <1>2, <1>3, <1>4

\* The hooks in effect and the entries for them stay.
LEMMA SameInEffect ==
    ASSUME NEW L, HookInv(L), UNCHANGED live, InEffect' = InEffect PROVE EntriesInv(L)'
BY DEF HookInv, EntriesInv

\* DobbyHook and DobbyInstrument begin.
LEMMA HookBegins ==
    ASSUME NEW L, HookInv(L), op = Null, NEW f \in Funs, NEW r \in Hooks,
           NEW stage \in {"copy", "closure"},
           r \in Replacements => stage = "copy" /\ Free(r), r \in Handlers => stage = "closure",
           Begin(f, r, stage),
           UNCHANGED <<prologue, bytes, chunks, entries, origin, call, dead, live, starved>>
    PROVE  HookInv(L)'
<1>1. /\ op'.by = r /\ op'.stage = stage /\ op'.closure = 0 /\ op'.relocated = 0
  BY DEF Begin
<1>2. InEffect' = InEffect
  <2>1. ~Pending /\ ~Pending'
    BY <1>1 DEF Pending
  <2> QED BY <2>1 DEF InEffect
<1>3. Free(r)' <=> Free(r)
  BY DEF Free
<1>4. r \in Replacements => r \notin Handlers
  BY Distinct
<1>5. OpInv(L)'
  BY <1>1, <1>3, <1>4 DEF OpInv
<1> QED BY <1>2, <1>5, OnlyOpChanges, SameInEffect DEF HookInv

\* CreateClosureTrampoline
LEMMA ClosureStep ==
    ASSUME NEW L \in [Funs -> Seq(Entry)], ArenaInv, HookInv(L), CreateClosure, Grown(chunks', chunks),
           chunks'[Len(chunks')].holds = [kind |-> "closure", by |-> op.by]
    PROVE  HookInv(L)'
<1> DEFINE n == Len(chunks)
<1>1. /\ op \in Op /\ op # Null /\ op.stage = "closure" /\ chunks \in Seq(Chunk)
      /\ UNCHANGED <<prologue, bytes, entries, origin, call, dead, live, starved>>
  BY DEF CreateClosure, ArenaInv, DobbyTypeOK
<1>2. n \in Nat /\ Len(chunks') = n + 1
  BY DEF Grown
<1>3. /\ op'.by = op.by /\ op'.fun = op.fun /\ op'.closure = n + 1 /\ op'.relocated = op.relocated
      /\ op'.stage \in {"copy", "bridge"}
  BY <1>1 DEF CreateClosure, Op, NewChunk
<1>4. op.by \in Handlers /\ op.by \notin Replacements /\ op.relocated = 0
  BY <1>1 DEF HookInv, OpInv, Op, Hooks
<1>5. chunks'[n + 1].holds.kind = "closure" /\ chunks'[n + 1].holds.by = op.by
  BY <1>2
<1>6. ~IsCopy(n + 1, chunks') /\ IsClosure(n + 1, op.by, chunks')
  BY <1>2, <1>5 DEF IsCopy, IsClosure
<1>7. InEffect' = InEffect
  <2>1. ~Pending /\ ~Pending'
    BY <1>1, <1>3 DEF Pending
  <2> QED BY <1>1, <2>1 DEF InEffect
<1>8. ASSUME NEW c \in 1..n + 1 PROVE ~CopyOf(c, n + 1, chunks')
  <2> SUFFICES ASSUME CopyOf(c, n + 1, chunks') PROVE FALSE
    OBVIOUS
  <2>1. c \in 1..n
    <3>1. c # n + 1
      BY <1>6 DEF CopyOf
    <3> QED BY <1>2, <3>1
  <2>2. CopyOf(c, n + 1, chunks)
    BY <2>1, GrownKinds
  <2>3. chunks[c].holds.closure <= n /\ chunks[c].holds.closure = n + 1
    BY <2>1, <2>2 DEF CopyOf, HookInv, CodeInv, CopyInv
  <2> QED BY <1>2, <2>3
<1>9. OpInv(L)'
  BY <1>2, <1>3, <1>4, <1>6, <1>8 DEF OpInv
<1>10. /\ HookTypeOK' /\ ChainsInv(L)' /\ CodeInv' /\ SoundInv'
       /\ \A t \in Threads : call'[t] # Null => CallInv(call'[t], L, chunks', prologue', starved')
       /\ SavedInv(entries, chunks')
  BY <1>1, <1>2, <1>6, GrowKeeps
<1>11. SavedInv(entries, chunks)'
  BY <1>1, <1>10
<1> QED BY <1>1, <1>7, <1>9, <1>10, <1>11, SameInEffect DEF HookInv

\* get_closure_bridge
LEMMA BridgeStep ==
    ASSUME NEW L \in [Funs -> Seq(Entry)], ArenaInv, HookInv(L), CreateBridge, Grown(chunks', chunks),
           chunks'[Len(chunks')].holds = [kind |-> "bridge"]
    PROVE  HookInv(L)'
<1> DEFINE n == Len(chunks)
<1>1. /\ op \in Op /\ op # Null /\ op.stage = "bridge" /\ chunks \in Seq(Chunk)
      /\ UNCHANGED <<prologue, bytes, entries, origin, call, dead, live, starved>>
  BY DEF CreateBridge, ArenaInv, DobbyTypeOK
<1>2. n \in Nat /\ Len(chunks') = n + 1
  BY DEF Grown
<1>3. /\ op'.by = op.by /\ op'.fun = op.fun /\ op'.closure = op.closure
      /\ op'.relocated = op.relocated /\ op'.stage = "copy"
  BY <1>1 DEF CreateBridge, Op
<1>4. /\ op.by \in Handlers /\ op.by \notin Replacements /\ op.relocated = 0
      /\ IsClosure(op.closure, op.by, chunks)
      /\ \A c \in 1..n : ~CopyOf(c, op.closure, chunks)
  BY <1>1 DEF HookInv, OpInv, Op, Hooks
<1>5. ~IsCopy(n + 1, chunks')
  BY <1>2 DEF IsCopy
<1>6. \A c \in 1..n + 1 : ~CopyOf(c, op.closure, chunks')
  <2>1. ~CopyOf(n + 1, op.closure, chunks')
    BY <1>5 DEF CopyOf
  <2>2. \A c \in 1..n + 1 : c \in 1..n \/ c = n + 1
    BY <1>2
  <2> QED BY <1>4, <2>1, <2>2, GrownKinds
<1>7. InEffect' = InEffect
  <2>1. ~Pending /\ ~Pending'
    BY <1>1, <1>3 DEF Pending
  <2> QED BY <1>1, <2>1 DEF InEffect
<1>8. IsClosure(op.closure, op.by, chunks')
  BY <1>4, GrownKinds
<1>9. OpInv(L)'
  BY <1>2, <1>3, <1>4, <1>6, <1>8 DEF OpInv
<1>10. /\ HookTypeOK' /\ ChainsInv(L)' /\ CodeInv' /\ SoundInv'
       /\ \A t \in Threads : call'[t] # Null => CallInv(call'[t], L, chunks', prologue', starved')
       /\ SavedInv(entries, chunks')
  BY <1>1, <1>2, <1>5, GrowKeeps
<1>11. SavedInv(entries, chunks)'
  BY <1>1, <1>10
<1> QED BY <1>1, <1>7, <1>9, <1>10, <1>11, SameInEffect DEF HookInv

\* More functions without memory: less is claimed.
LEMMA StarvedKeeps ==
    ASSUME NEW L, HookInv(L), starved \subseteq starved', starved' # {},
           UNCHANGED <<prologue, bytes, chunks, origin, call, live>>
    PROVE  /\ HookTypeOK' /\ ChainsInv(L)' /\ CodeInv' /\ SoundInv'
           /\ \A t \in Threads : call'[t] # Null => CallInv(call'[t], L, chunks', prologue', starved')
<1>1. HookTypeOK' /\ CodeInv'
  BY DEF HookInv, HookTypeOK, CodeInv
<1>2. ChainsInv(L)' /\ SoundInv'
  BY DEF HookInv, ChainsInv, SoundInv
<1>3. \A t \in Threads : call'[t] # Null => CallInv(call'[t], L, chunks', prologue', starved')
  BY DEF HookInv, CallInv
<1> QED BY <1>1, <1>2, <1>3

\* DobbyInstrument without memory
LEMMA InstrumentFailsStep ==
    ASSUME NEW L, ArenaInv, HookInv(L), InstrumentFails PROVE HookInv(L)'
<1>1. /\ op # Null /\ starved' = starved \cup {op.fun} /\ op.stage \in {"closure", "bridge"}
      /\ UNCHANGED <<prologue, bytes, chunks, entries, origin, op, call, live>>
  BY DEF InstrumentFails
<1>2. InEffect' = InEffect
  BY <1>1 DEF InEffect, Pending
<1>3. OpInv(L)'
  <2>1. Free(op.by)' <=> Free(op.by)
    BY <1>1 DEF Free
  <2> QED BY <1>1, <2>1 DEF HookInv, OpInv
<1>4. starved \subseteq starved' /\ starved' # {}
  BY <1>1
<1>5. SavedInv(entries, chunks)'
  BY <1>1 DEF HookInv
<1> QED BY <1>1, <1>2, <1>3, <1>4, <1>5, StarvedKeeps, SameInEffect DEF HookInv

\* GenRelocateCodeAndBranch gives up.
LEMMA RelocationAbortsStep ==
    ASSUME NEW L, ArenaInv, HookInv(L), RelocationAborts PROVE HookInv(L)'
<1>1. /\ op \in Op /\ op # Null /\ op.stage = "copy" /\ op' = [op EXCEPT !.stage = "aborted"]
      /\ UNCHANGED <<prologue, bytes, chunks, entries, origin, call, live, starved>>
  BY DEF RelocationAborts, ArenaInv, DobbyTypeOK
<1>2. /\ op'.by = op.by /\ op'.fun = op.fun /\ op'.closure = op.closure
      /\ op'.relocated = op.relocated /\ op'.stage = "aborted"
  BY <1>1 DEF Op
<1>3. InEffect' = InEffect
  <2>1. ~Pending /\ ~Pending'
    BY <1>1, <1>2 DEF Pending
  <2> QED BY <1>1, <2>1 DEF InEffect
<1>4. OpInv(L)'
  <2>1. Free(op.by)' <=> Free(op.by)
    BY <1>1 DEF Free
  <2> QED BY <1>1, <1>2, <2>1 DEF HookInv, OpInv
<1> QED BY <1>1, <1>3, <1>4, OnlyOpChanges, SameInEffect DEF HookInv

\* GenerateRelocatedCode without memory
LEMMA RelocationFailsStep ==
    ASSUME NEW L, ArenaInv, HookInv(L), RelocationFails PROVE HookInv(L)'
<1>1. /\ op \in Op /\ op # Null /\ op.stage = "copy" /\ entries \in Seq(Entry)
      /\ starved' = starved \cup {op.fun} /\ AddHookEntry(0, << >>)
      /\ op' = [op EXCEPT !.stage = AfterCopy]
      /\ UNCHANGED <<prologue, bytes, chunks, origin, call, live>>
  BY DEF RelocationFails, ArenaInv, DobbyTypeOK
<1>2. /\ op'.by = op.by /\ op'.fun = op.fun /\ op'.closure = op.closure
      /\ op'.relocated = op.relocated /\ op'.stage = AfterCopy
  BY <1>1 DEF Op
<1>3. << >> \in Seq(CodeByte) /\ 0 \in Nat
  OBVIOUS
<1> DEFINE e == [address |-> Address(op.fun), target |-> Target, by |-> op.by,
                 relocated |-> 0, saved |-> << >>]
<1>4. /\ entries' \in Seq(Entry) /\ Len(entries') = Len(entries) + 1 /\ entries'[1] = e
      /\ \A i \in 1..Len(entries) : entries'[i + 1] = entries[i]
      /\ \A i \in 1..Len(entries') : i = 1 \/ i - 1 \in 1..Len(entries)
      /\ Tail(entries') = entries
  BY <1>1, <1>3, AddHookEntryFacts
<1>5. AfterCopy \in {"origin", "commit"} /\ (op.closure = 0 <=> AfterCopy = "origin")
  BY DEF AfterCopy
<1>6. op' \in Op /\ op' # Null
  BY <1>1, <1>5, DobbyAssumption DEF Op
<1>7. InEffect' = InEffect
  <2>1. ~Pending /\ Pending'
    BY <1>1, <1>2, <1>5, <1>6 DEF Pending
  <2> QED BY <1>4, <2>1 DEF InEffect
<1>8. starved \subseteq starved' /\ starved' # {} /\ op.fun \in starved'
  BY <1>1
<1>9. SavedInv(entries, chunks)'
  <2> SUFFICES ASSUME NEW i \in 1..Len(entries'), NEW k \in 1..Len(entries'[i].saved)
               PROVE  OrCode(entries'[i].saved[k].by, {Null}, chunks)
    BY <1>1 DEF SavedInv
  <2>1. CASE i = 1
    BY <1>4, <2>1
  <2>2. CASE i - 1 \in 1..Len(entries)
    <3>1. (i - 1) + 1 = i
      OBVIOUS
    <3>2. entries'[i] = entries[i - 1]
      BY <1>4, <2>2, <3>1
    <3> QED BY <2>2, <3>2 DEF HookInv, SavedInv
  <2> QED BY <1>4, <2>1, <2>2
<1>10. /\ entries' # << >> /\ Head(entries') = e
       /\ e.address = Address(op.fun) /\ e.target = Target /\ e.by = op.by /\ e.relocated = 0
  BY <1>4
<1>11. op.relocated = 0 /\ (op.by \in Replacements => op.closure = 0 /\ Free(op.by))
       /\ (op.by \in Handlers => IsClosure(op.closure, op.by, chunks) /\ op.closure # 0)
  BY <1>1 DEF HookInv, OpInv, IsClosure
<1>12. Target' = Target /\ (Free(op.by)' <=> Free(op.by))
  BY <1>1, <1>2 DEF Target, Free
<1>13. op.by \in Replacements \/ op.by \in Handlers
  BY <1>1 DEF Op, Hooks
<1> HIDE DEF e
<1>14. OpInv(L)'
  BY <1>1, <1>2, <1>5, <1>8, <1>10, <1>11, <1>12, <1>13, Distinct DEF OpInv
<1> QED BY <1>1, <1>7, <1>8, <1>9, <1>14, StarvedKeeps, SameInEffect DEF HookInv

\* GenerateRelocatedCode: the new link of the chain.
LEMMA NewLink ==
    ASSUME X86, NEW L \in [Funs -> Seq(Entry)], ArenaInv, HookInv(L), op \in Op,
           op # Null, op.stage = "copy", Grown(chunks', chunks),
           chunks'[Len(chunks')].holds = Copy(op.fun),
           UNCHANGED <<prologue, bytes, origin, call, dead, live, starved>>
    PROVE  LET n == Len(chunks')
           IN  /\ IsCopy(n, chunks') /\ chunks'[n].holds.to = LeadsTo(op.fun)
               /\ CopyInv(n, chunks', prologue)
               /\ \A x : CopyOf(n, x, chunks') => x = op.closure
               /\ \A f \in Funs : f \notin starved => \A i \in 1..Len(L[f]) :
                    L[f][i].by \in Handlers => ~CopyOf(n, L[f][i].target, chunks')
               /\ op.by \in Handlers =>
                    /\ IsClosure(op.closure, op.by, chunks')
                    /\ \A c \in 1..n : CopyOf(c, op.closure, chunks') <=> c = n
<1> DEFINE n == Len(chunks)
           f == op.fun
           h == chunks'[n + 1].holds
<1>1. n \in Nat /\ Len(chunks') = n + 1
  BY DEF Grown
<1>2. /\ h.kind = "copy" /\ h.fun = f /\ h.to = LeadsTo(f) /\ h.closure = op.closure
      /\ h.misled = {Covered(f)[i].op : i \in Misled(f, Covered(f), AddressFor(CopySize(f)))}
  BY <1>1 DEF Copy
<1>3. f \in Funs /\ (op.by \in Replacements \/ op.by \in Handlers)
  BY DEF Op, Hooks
<1>4. /\ op.by \in Replacements => op.closure = 0
      /\ op.by \in Handlers => /\ IsClosure(op.closure, op.by, chunks)
                               /\ \A c \in 1..n : ~CopyOf(c, op.closure, chunks)
  BY DEF HookInv, OpInv
<1>5. IsCopy(n + 1, chunks')
  BY <1>1, <1>2 DEF IsCopy
<1>6. \A x : CopyOf(n + 1, x, chunks') <=> x = op.closure
  BY <1>2, <1>5 DEF CopyOf
<1>7. op.closure <= n + 1
  BY <1>1, <1>3, <1>4 DEF IsClosure
<1>8. OrCode(LeadsTo(f), Funs, chunks')
  BY <1>3, LeadsFacts, GrownKinds
<1>9. h.misled # {} => HasBranch(prologue[f])
  BY <1>2, <1>3, MisledBranches
<1>10. CopyInv(n + 1, chunks', prologue)
  BY <1>1, <1>2, <1>7, <1>8, <1>9 DEF CopyInv
<1>11. ASSUME NEW g \in Funs, g \notin starved, NEW i \in 1..Len(L[g]), L[g][i].by \in Handlers
       PROVE  ~CopyOf(n + 1, L[g][i].target, chunks')
  <2> DEFINE e == L[g][i]
  <2>1. Linked(e, g, Older(L[g], i), chunks, origin)
    BY <1>11 DEF HookInv, ChainsInv, Chained
  <2>2. e.by \notin Replacements
    BY <1>11, Distinct
  <2>3. IsClosure(e.target, e.by, chunks) /\ e.relocated \in 1..n
        /\ CopyOf(e.relocated, e.target, chunks)
    BY <2>1, <2>2 DEF Linked, FindsCopy, GoesOn, IsCopy
  <2>4. e.target # op.closure
    <3>1. e.target # 0
      BY <2>3 DEF IsClosure
    <3> QED BY <1>3, <1>4, <2>3, <3>1
  <2> QED BY <1>6, <2>4
<1>12. ASSUME op.by \in Handlers
       PROVE  /\ IsClosure(op.closure, op.by, chunks')
              /\ \A c \in 1..n + 1 : CopyOf(c, op.closure, chunks') <=> c = n + 1
  <2>1. IsClosure(op.closure, op.by, chunks')
    BY <1>4, <1>12, GrownKinds
  <2>2. ASSUME NEW c \in 1..n + 1 PROVE CopyOf(c, op.closure, chunks') <=> c = n + 1
    <3>1. c \in 1..n \/ c = n + 1
      BY <1>1
    <3>2. n + 1 \notin 1..n
      BY <1>1
    <3> QED BY <1>4, <1>6, <1>12, <3>1, <3>2, GrownKinds
  <2> QED BY <2>1, <2>2
<1> HIDE DEF n
<1> QED BY <1>1, <1>2, <1>5, <1>6, <1>10, <1>11, <1>12

\* What is saved of a function whose chain is unbroken.
LEMMA SavedFacts ==
    ASSUME X86, NEW L \in [Funs -> Seq(Entry)], ArenaInv, HookInv(L), NEW f \in Funs,
           NEW saved, saved = [k \in 1..SavedLength(f) |-> bytes[f][k]]
    PROVE  /\ saved \in Seq(CodeByte)
           /\ \A k \in 1..Len(saved) : OrCode(saved[k].by, {Null}, chunks)
           /\ \A e : e.saved = saved /\ f \notin starved => Saves(e, Older(L[f], 0))
<1> DEFINE n == SavedLength(f)
<1>1. n \in 0..Span /\ n >= JumpSize
  <2>1. n \in 0..Span
    BY CoveredFacts DEF ArenaInv
  <2>3. CopyFits(Instructions(f), Shortest(Instructions(f)))
    BY InstructionsType DEF ArenaInv
  <2> DEFINE s == Instructions(f)
             I == {m \in 0..Len(s) : LengthOf(SubSeq(s, 1, m)) >= JumpSize}
             j == Min(I)
  <2>4. n = LengthOf(SubSeq(s, 1, j))
    BY DEF SavedLength, Covered, Shortest, X86
  <2>5. s \in Seq(Insn)
    BY InstructionsType DEF ArenaInv
  <2>6. \E m \in 0..Len(s) : LengthOf(SubSeq(s, 1, m)) >= JumpSize
    BY <2>3 DEF CopyFits
  <2> HIDE DEF s, n
  <2>7. I \in SUBSET Nat /\ I # {}
    BY <2>5, <2>6
  <2>8. j \in I
    BY <2>7, MinOfNats
  <2> HIDE DEF j
  <2>9. LengthOf(SubSeq(s, 1, j)) >= JumpSize
    BY <2>8
  <2> QED BY <2>1, <2>4, <2>9
<1> HIDE DEF n
<1>2. n \in Nat /\ n <= Span /\ \A k \in 1..n : k \in 0..Span
  BY <1>1, SpanType
<1>3. saved = [k \in 1..n |-> bytes[f][k]]
  BY DEF n
<1>4. [k \in 1..n |-> bytes[f][k]] \in [1..n -> CodeByte]
  <2>1. bytes[f] \in [0..Span -> CodeByte]
    BY DEF ArenaInv, DobbyTypeOK
  <2> QED BY <1>2, <2>1
<1>5. saved \in Seq(CodeByte) /\ Len(saved) = n
  <2>1. [k \in 1..n |-> bytes[f][k]] \in Seq(CodeByte) /\ Len([k \in 1..n |-> bytes[f][k]]) = n
    BY <1>2, <1>4
  <2> QED BY <1>3, <2>1
<1>6. \A k \in 1..n : saved[k] = bytes[f][k]
  BY <1>3
<1>7. \A k \in 1..n : OrCode(saved[k].by, {Null}, chunks)
  BY <1>2, <1>6 DEF HookInv, CodeInv
<1>8. ASSUME NEW e, e.saved = saved, f \notin starved PROVE Saves(e, Older(L[f], 0))
  <2>1. HeadIs(bytes[f], Older(L[f], 0))
    BY <1>8 DEF HookInv, ChainsInv, Chained
  <2>2. \A k \in 1..n : k \in 0..Span /\ (k \in 1..JumpSize <=> k <= JumpSize)
    BY <1>2, SpanType
  <2>3. \A k \in 1..n :
          saved[k] = [by |-> IF k <= JumpSize THEN Older(L[f], 0) ELSE Null, k |-> k]
    BY <1>6, <2>1, <2>2 DEF HeadIs
  <2> QED BY <1>1, <1>2, <1>5, <1>8, <2>3 DEF Saves
<1> QED BY <1>5, <1>7, <1>8

\* GenerateRelocatedCode
LEMMA GenerateStep ==
    ASSUME X86, NEW L \in [Funs -> Seq(Entry)], ArenaInv, HookInv(L),
           GenerateRelocatedCode, Grown(chunks', chunks),
           chunks'[Len(chunks')].holds = Copy(op.fun)
    PROVE  HookInv(L)'
<1> DEFINE n == Len(chunks')
           f == op.fun
           saved == [k \in 1..SavedLength(f) |-> bytes[f][k]]
           next == Older(L[f], 0)
<1>1. /\ op \in Op /\ op # Null /\ op.stage = "copy" /\ entries \in Seq(Entry)
      /\ chunks \in Seq(Chunk) /\ AddHookEntry(NewChunk, saved)
      /\ op' = [op EXCEPT !.stage = AfterCopy, !.relocated = NewChunk]
      /\ UNCHANGED <<prologue, bytes, origin, call, dead, live, starved>>
  BY DEF GenerateRelocatedCode, ArenaInv, DobbyTypeOK
<1>2. n \in Nat /\ NewChunk = n /\ n # 0
  BY DEF Grown, NewChunk
<1>3. /\ op'.by = op.by /\ op'.fun = f /\ op'.closure = op.closure
      /\ op'.relocated = n /\ op'.stage = AfterCopy
  BY <1>1, <1>2 DEF Op
<1>4. f \in Funs /\ (op.by \in Replacements \/ op.by \in Handlers)
  BY <1>1 DEF Op, Hooks
<1>5. /\ saved \in Seq(CodeByte)
      /\ \A k \in 1..Len(saved) : OrCode(saved[k].by, {Null}, chunks)
      /\ \A e : e.saved = saved /\ f \notin starved => Saves(e, next)
  <2> DEFINE s == saved
  <2>1. s = saved
    OBVIOUS
  <2> HIDE DEF s
  <2> QED BY <1>4, <2>1, SavedFacts
<1> HIDE DEF saved
<1> DEFINE e == [address |-> Address(f), target |-> Target, by |-> op.by,
                 relocated |-> n, saved |-> saved]
<1>6. /\ entries' \in Seq(Entry) /\ Len(entries') = Len(entries) + 1 /\ entries'[1] = e
      /\ \A i \in 1..Len(entries) : entries'[i + 1] = entries[i]
      /\ \A i \in 1..Len(entries') : i = 1 \/ i - 1 \in 1..Len(entries)
      /\ Tail(entries') = entries
  BY <1>1, <1>2, <1>5, AddHookEntryFacts
<1>7. /\ IsCopy(n, chunks') /\ chunks'[n].holds.to = LeadsTo(f)
      /\ CopyInv(n, chunks', prologue)
      /\ \A x : CopyOf(n, x, chunks') => x = op.closure
      /\ \A g \in Funs : g \notin starved => \A i \in 1..Len(L[g]) :
           L[g][i].by \in Handlers => ~CopyOf(n, L[g][i].target, chunks')
      /\ op.by \in Handlers => /\ IsClosure(op.closure, op.by, chunks')
                               /\ \A c \in 1..n : CopyOf(c, op.closure, chunks') <=> c = n
  BY <1>1, NewLink
<1>8. /\ OrCode(LeadsTo(f), Funs, chunks)
      /\ f \notin starved => LeadsTo(f) = Behind(f, next) /\ Sound(LeadsTo(f), chunks, origin)
  BY <1>4, LeadsFacts
<1>9. /\ HookTypeOK' /\ ChainsInv(L)' /\ CodeInv' /\ SoundInv'
      /\ \A t \in Threads : call'[t] # Null => CallInv(call'[t], L, chunks', prologue', starved')
      /\ SavedInv(entries, chunks')
  BY <1>1, <1>7, <1>8, GrowKeeps
<1>10. AfterCopy \in {"origin", "commit"} /\ (op.closure = 0 <=> AfterCopy = "origin")
  BY DEF AfterCopy
<1>11. op' \in Op /\ op' # Null
  BY <1>1, <1>2, <1>10, DobbyAssumption DEF Op
<1>12. InEffect' = InEffect
  <2>1. ~Pending /\ Pending'
    BY <1>1, <1>3, <1>10, <1>11 DEF Pending
  <2> QED BY <1>6, <2>1 DEF InEffect
<1>13. SavedInv(entries, chunks)'
  <2> SUFFICES ASSUME NEW i \in 1..Len(entries'), NEW k \in 1..Len(entries'[i].saved)
               PROVE  OrCode(entries'[i].saved[k].by, {Null}, chunks')
    BY DEF SavedInv
  <2>1. CASE i = 1
    <3>1. entries'[i].saved = saved
      BY <1>6, <2>1
    <3>2. OrCode(saved[k].by, {Null}, chunks)
      BY <1>5, <3>1
    <3>3. OrCode(saved[k].by, {Null}, chunks')
      BY <3>2, GrownKinds
    <3> QED BY <3>1, <3>3
  <2>2. CASE i - 1 \in 1..Len(entries)
    <3>1. (i - 1) + 1 = i
      OBVIOUS
    <3>2. entries'[i] = entries[i - 1]
      BY <1>6, <2>2, <3>1
    <3> QED BY <1>9, <2>2, <3>2 DEF SavedInv
  <2> QED BY <1>6, <2>1, <2>2
<1>14. /\ entries' # << >> /\ Head(entries') = e
       /\ e.address = Address(f) /\ e.target = Target /\ e.by = op.by /\ e.relocated = n
       /\ e.saved = saved
  BY <1>6
<1>15. op.by \in Replacements => op.closure = 0 /\ Free(op.by)
  BY <1>1 DEF HookInv, OpInv
<1>16. op.by \in Handlers => IsClosure(op.closure, op.by, chunks') /\ op.closure # 0
  BY <1>7 DEF IsClosure
<1>17. Target' = Target /\ (Free(op.by)' <=> Free(op.by))
  BY <1>1, <1>3 DEF Target, Free
<1> HIDE DEF e
<1>18. ASSUME f \notin starved
       PROVE  /\ Saves(e, next) /\ GoesOn(e, f, next, chunks')
              /\ op.by \in Handlers => FindsCopy(e, chunks', origin)
  <2>1. Saves(e, next)
    BY <1>5, <1>14, <1>18
  <2>2. GoesOn(e, f, next, chunks')
    BY <1>7, <1>8, <1>14, <1>18 DEF GoesOn
  <2>3. op.by \in Handlers => FindsCopy(e, chunks', origin)
    BY <1>7, <1>14, <1>16 DEF FindsCopy, Target
  <2> QED BY <2>1, <2>2, <2>3
<1> HIDE DEF n
<1>19. OpInv(L)'
  BY <1>1, <1>3, <1>4, <1>7, <1>10, <1>14, <1>15, <1>16, <1>17, <1>18, Distinct DEF OpInv
<1> QED BY <1>1, <1>9, <1>12, <1>13, <1>19, SameInEffect DEF HookInv

\* DobbyHook sets origin_call.
LEMMA SetOriginStep ==
    ASSUME NEW L \in [Funs -> Seq(Entry)], ArenaInv, HookInv(L), SetOrigin
    PROVE  HookInv(L)'
<1> DEFINE r == op.by
           f == op.fun
           e == Head(entries)
<1>1. /\ op \in Op /\ op # Null /\ op.stage = "origin" /\ entries \in Seq(Entry)
      /\ chunks \in Seq(Chunk)
      /\ origin' = [origin EXCEPT ![r] = op.relocated] /\ op' = [op EXCEPT !.stage = "commit"]
      /\ UNCHANGED <<prologue, bytes, chunks, entries, call, dead, live, starved>>
  BY DEF SetOrigin, ArenaInv, DobbyTypeOK
<1>2. /\ op'.by = r /\ op'.fun = f /\ op'.closure = op.closure
      /\ op'.relocated = op.relocated /\ op'.stage = "commit" /\ op' \in Op
  BY <1>1 DEF Op
<1>3. op' # Null
  BY <1>2, DobbyAssumption
<1>4. f \in Funs /\ op.relocated \in Nat /\ (r \in Replacements \/ r \in Handlers)
  BY <1>1 DEF Op, Hooks
<1>5. /\ r \in Replacements /\ op.closure = 0 /\ Free(r)
      /\ op.relocated = 0 \/ IsCopy(op.relocated, chunks)
      /\ entries # << >> /\ e.address = Address(f) /\ e.target = Target /\ e.by = r
      /\ e.relocated = op.relocated
      /\ f \notin starved => Saves(e, Older(L[f], 0)) /\ GoesOn(e, f, Older(L[f], 0), chunks)
  BY <1>1, <1>4 DEF HookInv, OpInv
<1>6. /\ origin' \in [Replacements -> Nat] /\ origin'[r] = op.relocated
      /\ \A x \in Replacements : x # r => origin'[x] = origin[x]
  BY <1>1, <1>4, <1>5 DEF HookInv, HookTypeOK
<1>7. HookTypeOK'
  BY <1>1, <1>6 DEF HookInv, HookTypeOK
<1>8. InEffect' = InEffect
  <2>1. Pending /\ Pending'
    BY <1>1, <1>2, <1>3 DEF Pending
  <2> QED BY <1>1, <2>1 DEF InEffect
<1>9. ChainsInv(L)'
  <2> SUFFICES ASSUME NEW g \in Funs, g \notin starved
               PROVE  Chained(g, L[g], bytes[g], chunks, origin')
    BY <1>1 DEF ChainsInv
  <2>1. Chained(g, L[g], bytes[g], chunks, origin)
    BY DEF HookInv, ChainsInv
  <2>2. ASSUME NEW i \in 1..Len(L[g]) PROVE Linked(L[g][i], g, Older(L[g], i), chunks, origin')
    <3>1. Linked(L[g][i], g, Older(L[g], i), chunks, origin)
      BY <2>1 DEF Chained
    <3>2. L[g][i].by # r
      <4>1. Len(L[g]) = Len(live[g]) /\ L[g][i].by = live[g][i]
        BY DEF HookInv, EntriesInv
      <4>2. live[g] \in Seq(Hooks)
        BY DEF HookInv, HookTypeOK
      <4>3. live[g][i] \in ToSet(live[g])
        BY <4>1, <4>2 DEF ToSet
      <4>4. r \notin ToSet(live[g])
        BY <1>5 DEF Free
      <4> QED BY <4>1, <4>3, <4>4
    <3>3. FindsCopy(L[g][i], chunks, origin')
      BY <1>6, <3>1, <3>2 DEF Linked, FindsCopy
    <3> QED BY <3>1, <3>3 DEF Linked
  <2> QED BY <2>1, <2>2 DEF Chained
<1>10. CodeInv'
  <2>1. \A x \in Replacements : origin'[x] = 0 \/ IsCopy(origin'[x], chunks)
    BY <1>5, <1>6 DEF HookInv, CodeInv
  <2> QED BY <1>1, <2>1 DEF HookInv, CodeInv
<1>11. SoundInv'
  <2>2. ASSUME starved = {}, NEW x, Sound(x, chunks, origin) PROVE Sound(x, chunks, origin')
    <3>1. op.relocated # 0
      BY <1>5, <2>2 DEF GoesOn, IsCopy
    <3> QED BY <1>6, <2>2, <3>1 DEF Sound
  <2>3. starved = {} =>
          /\ \A c \in 1..Len(chunks) : IsCopy(c, chunks) => Sound(chunks[c].holds.to, chunks, origin')
          /\ \A t \in Threads : call[t] # Null /\ call[t].at \in {"replacement", "chunk"} =>
                Sound(call[t].where, chunks, origin')
    BY <2>2 DEF HookInv, SoundInv
  <2> QED BY <1>1, <2>3 DEF SoundInv
<1>12. Target' = Target /\ Target = r /\ (Free(r)' <=> Free(r))
  BY <1>1, <1>2, <1>5 DEF Target, Free
<1>13. FindsCopy(e, chunks, origin')
  BY <1>5, <1>6, <1>12 DEF FindsCopy
<1>14. OpInv(L)'
  BY <1>1, <1>2, <1>5, <1>12, <1>13, Distinct DEF OpInv
<1>15. /\ \A t \in Threads : call'[t] # Null => CallInv(call'[t], L, chunks', prologue', starved')
       /\ SavedInv(entries, chunks)'
  BY <1>1 DEF HookInv
<1> QED BY <1>1, <1>7, <1>8, <1>9, <1>10, <1>11, <1>14, <1>15, SameInEffect DEF HookInv

-----------------------------------------------------------------------------
(* Patching keeps the invariant *)

\* The bytes that CodePatch writes at the beginning of a function.
LEMMA PatchFacts ==
    ASSUME bytes \in [Funs -> [0..Span -> CodeByte]], NEW f \in Funs,
           NEW code \in Seq(CodeByte), CodePatch(f, 1, code)
    PROVE  /\ \A k \in 0..Span : bytes'[f][k] = IF k \in 1..Len(code) THEN code[k] ELSE bytes[f][k]
           /\ \A g \in Funs : g # f => bytes'[g] = bytes[g]
<1> DEFINE n == Len(code)
           b == [k \in 0..Span |-> IF k \in 1..1 + n - 1 THEN code[k - 1 + 1] ELSE bytes[f][k]]
<1>1. n \in Nat
  OBVIOUS
<1>2. bytes' = [bytes EXCEPT ![f] = b]
  BY DEF CodePatch
<1> HIDE DEF n
<1>3. ASSUME NEW k \in 0..Span PROVE b[k] = IF k \in 1..n THEN code[k] ELSE bytes[f][k]
  <2>1. k \in Int /\ 1 + n - 1 = n /\ k - 1 + 1 = k
    BY <1>1, SpanType
  <2> QED BY <2>1
<1> HIDE DEF b
<1> QED BY <1>2, <1>3 DEF n

\* The code of f changes: every other function is as it was, and so is every
\* call but for being clean.
LEMMA PatchKeeps ==
    ASSUME NEW L, HookInv(L), NEW L2, NEW f \in Funs, Disturb(f),
           \A g \in Funs : g # f => L2[g] = L[g] /\ bytes'[g] = bytes[g],
           f \notin starved => Chained(f, L2[f], bytes'[f], chunks, origin),
           \A k \in 0..Span : OrCode(bytes'[f][k].by, {Null}, chunks),
           live' \in [Funs -> Seq(Hooks)],
           UNCHANGED <<prologue, chunks, origin, dead, starved>>
    PROVE  /\ HookTypeOK' /\ ChainsInv(L2)' /\ CodeInv' /\ SoundInv'
           /\ \A t \in Threads : call'[t] # Null => CallInv(call'[t], L2, chunks', prologue', starved')
<1>1. ASSUME NEW t \in Threads
      PROVE  /\ call'[t] \in Calls \cup {Null}
             /\ call'[t] # Null =>
                  /\ call[t] # Null
                  /\ call'[t].fun = call[t].fun /\ call'[t].at = call[t].at
                  /\ call'[t].where = call[t].where /\ call'[t].ran = call[t].ran
                  /\ call'[t].clean => call[t].clean /\ call[t].fun # f
                  /\ call[t].fun \in Funs
  <2>1. call[t] \in Calls \/ call[t] = Null
    BY DEF HookInv, HookTypeOK
  <2>2. call'[t] = IF call[t] = Null \/ call[t].fun # f THEN call[t]
                   ELSE [call[t] EXCEPT !.clean = FALSE]
    BY DEF Disturb
  <2>3. CASE call[t] = Null \/ call[t].fun # f
    BY <2>1, <2>2, <2>3 DEF Calls
  <2>4. CASE ~(call[t] = Null \/ call[t].fun # f)
    <3>1. call[t] \in Calls /\ call'[t] = [call[t] EXCEPT !.clean = FALSE]
      BY <2>1, <2>2, <2>4
    <3> QED BY <2>4, <3>1 DEF Calls
  <2> QED BY <2>3, <2>4
<1>2. HookTypeOK'
  <2>1. call' \in [Threads -> Calls \cup {Null}]
    <3>1. call' = [t \in Threads |-> call'[t]]
      BY DEF Disturb
    <3> QED BY <1>1, <3>1
  <2> QED BY <2>1 DEF HookInv, HookTypeOK
<1>3. ChainsInv(L2)'
  <2> SUFFICES ASSUME NEW g \in Funs, g \notin starved
               PROVE  Chained(g, L2[g], bytes'[g], chunks, origin)
    BY DEF ChainsInv
  <2>1. Chained(g, L[g], bytes[g], chunks, origin)
    BY DEF HookInv, ChainsInv
  <2> QED BY <2>1
<1>4. CodeInv'
  <2>1. ASSUME NEW g \in Funs, NEW k \in 0..Span PROVE OrCode(bytes'[g][k].by, {Null}, chunks)
    <3>1. OrCode(bytes[g][k].by, {Null}, chunks)
      BY DEF HookInv, CodeInv
    <3> QED BY <3>1
  <2> QED BY <2>1 DEF HookInv, CodeInv
<1>5. SoundInv'
  <2>1. \A t \in Threads : call'[t] # Null /\ call'[t].at \in {"replacement", "chunk"} =>
          call[t] # Null /\ call[t].at \in {"replacement", "chunk"} /\ call'[t].where = call[t].where
    BY <1>1
  <2> QED BY <2>1 DEF HookInv, SoundInv
<1>6. ASSUME NEW t \in Threads, call'[t] # Null
      PROVE  CallInv(call'[t], L2, chunks, prologue, starved)
  <2> DEFINE c == call[t]
             c2 == call'[t]
  <2>1. /\ c # Null /\ c2.fun = c.fun /\ c2.at = c.at /\ c2.where = c.where /\ c2.ran = c.ran
        /\ c2.clean => c.clean /\ c.fun # f
        /\ c.fun \in Funs
    BY <1>1, <1>6
  <2>2. CallInv(c, L, chunks, prologue, starved)
    BY <2>1 DEF HookInv
  <2>3. c2.clean /\ c2.fun \notin starved => OnItsWay(c, L[c.fun]) /\ L2[c.fun] = L[c.fun]
    BY <2>1, <2>2 DEF CallInv
  <2>4. c2.clean /\ c2.fun \notin starved => OnItsWay(c2, L2[c2.fun])
    BY <2>1, <2>3 DEF OnItsWay
  <2> HIDE DEF c, c2
  <2>5. CallInv(c2, L2, chunks, prologue, starved)
    BY <2>1, <2>2, <2>4 DEF CallInv
  <2> QED BY <2>5 DEF c2
<1> QED BY <1>2, <1>3, <1>4, <1>5, <1>6

\* The chain with one more hook.
LEMMA ChainGrows ==
    ASSUME NEW l \in Seq(Entry), NEW e, NEW l2, Prepended(l2, e, l), NEW f, NEW b, NEW b2, NEW cs,
           NEW og, Chained(f, l, b, cs, og), Linked(e, f, Older(l, 0), cs, og),
           HeadIs(b2, e.target)
    PROVE  Chained(f, l2, b2, cs, og)
<1> DEFINE n == Len(l)
<1>1. n \in Nat /\ Len(l2) = n + 1 /\ l2[1] = e /\ \A i \in 1..n : l2[i + 1] = l[i]
  BY DEF Prepended
<1>2. /\ HeadIs(b2, e.target) /\ Older(l2, 0) = e.target
      /\ \A i \in 1..n : Linked(l[i], f, Older(l, i), cs, og)
  <2>1. Older(l2, 0) = e.target
    BY <1>1 DEF Older
  <2> QED BY <2>1 DEF Chained
<1>3. ASSUME NEW i \in 0..n PROVE Older(l2, i + 1) = Older(l, i)
  <2>1. CASE i = n
    BY <1>1, <2>1 DEF Older
  <2>2. CASE i # n
    <3>1. i + 1 \in 1..n /\ i + 1 # n + 1
      BY <1>1, <2>2
    <3> QED BY <1>1, <2>2, <3>1 DEF Older
  <2> QED BY <2>1, <2>2
<1> HIDE DEF n
<1>4. ASSUME NEW i \in 1..n + 1 PROVE Linked(l2[i], f, Older(l2, i), cs, og)
  <2>1. CASE i = 1
    <3>1. Older(l2, 0 + 1) = Older(l, 0) /\ 0 + 1 = 1
      BY <1>1, <1>3
    <3> QED BY <1>1, <2>1, <3>1
  <2>2. CASE i # 1
    <3> DEFINE j == i - 1
    <3>1. j \in 1..n /\ j \in 0..n /\ j + 1 = i
      BY <1>1, <2>2
    <3> HIDE DEF j
    <3>2. l2[j + 1] = l[j] /\ Older(l2, j + 1) = Older(l, j)
      BY <1>1, <1>3, <3>1
    <3>3. Linked(l[j], f, Older(l, j), cs, og)
      BY <1>2, <3>1
    <3> QED BY <3>1, <3>2, <3>3
  <2> QED BY <2>1, <2>2
<1> QED BY <1>1, <1>2, <1>4 DEF Chained

\* The chain with one hook less.
LEMMA ChainShrinks ==
    ASSUME NEW l \in Seq(Entry), l # << >>, NEW f, NEW b, NEW b2, NEW cs, NEW og,
           Chained(f, l, b, cs, og), HeadIs(b2, Older(l, 1))
    PROVE  Chained(f, Tail(l), b2, cs, og)
<1> DEFINE n == Len(l)
           q == Tail(l)
<1>1. n \in Nat /\ n # 0
  OBVIOUS
<1>2. Len(q) = n - 1 /\ \A i \in 1..n - 1 : q[i] = l[i + 1]
  BY HeadTailProperties
<1>3. \A i \in 1..n : Linked(l[i], f, Older(l, i), cs, og)
  BY DEF Chained
<1> HIDE DEF q
<1>4. ASSUME NEW i \in 0..n - 1 PROVE Older(q, i) = Older(l, i + 1)
  <2>1. CASE i = n - 1
    BY <1>1, <1>2, <2>1 DEF Older
  <2>2. CASE i # n - 1
    <3>1. i + 1 \in 1..n - 1 /\ i + 1 # n
      BY <1>1, <2>2
    <3> QED BY <1>1, <1>2, <2>2, <3>1 DEF Older
  <2> QED BY <2>1, <2>2
<1> HIDE DEF n
<1>5. HeadIs(b2, Older(q, 0))
  <2>1. 0 \in 0..n - 1 /\ 0 + 1 = 1
    BY <1>1
  <2> QED BY <1>4, <2>1
<1>6. ASSUME NEW i \in 1..n - 1 PROVE Linked(q[i], f, Older(q, i), cs, og)
  <2>1. i + 1 \in 1..n /\ i \in 0..n - 1
    BY <1>1
  <2> QED BY <1>2, <1>3, <1>4, <2>1
<1> QED BY <1>2, <1>5, <1>6 DEF Chained, q

\* Functions on x86 have addresses of their own.
LEMMA AddressesDiffer ==
    ASSUME X86, NEW f \in Funs, NEW g \in Funs, Address(f) = Address(g) PROVE f = g
<1>1. FunAt[f] \in Int /\ FunAt[g] \in Int /\ Flag[f] = 0 /\ Flag[g] = 0
  BY DobbyAssumption DEF X86
<1>2. FunAt[f] = FunAt[g]
  BY <1>1 DEF Address
<1> QED BY <1>2 DEF X86

\* Commit: the hook is in effect.
LEMMA CommitStep ==
    ASSUME X86, NEW L \in [Funs -> Seq(Entry)], ArenaInv, HookInv(L), Commit
    PROVE  \E L2 \in [Funs -> Seq(Entry)] : HookInv(L2)'
<1> DEFINE f == op.fun
           e == Head(entries)
           l2 == <<e>> \o L[f]
           es == Tail(entries)
           new == <<op.by>> \o live[f]
<1>1. /\ op \in Op /\ op # Null /\ op.stage = "commit" /\ entries \in Seq(Entry)
      /\ chunks \in Seq(Chunk) /\ bytes \in [Funs -> [0..Span -> CodeByte]]
      /\ CodePatch(f, 1, Trampoline(Target)) /\ Disturb(f) /\ op' = Null
      /\ live' = [live EXCEPT ![f] = new]
      /\ UNCHANGED <<prologue, chunks, entries, origin, dead, starved>>
  BY DEF Commit, ArenaInv, DobbyTypeOK
<1>2. f \in Funs /\ op.by \in Hooks /\ (op.by \in Replacements \/ op.by \in Handlers)
  BY <1>1 DEF Op, Hooks
<1>3. /\ op.by \in Replacements => op.closure = 0
      /\ op.by \in Handlers => IsClosure(op.closure, op.by, chunks)
      /\ entries # << >> /\ e.address = Address(f) /\ e.target = Target /\ e.by = op.by
      /\ f \notin starved => Linked(e, f, Older(L[f], 0), chunks, origin)
  BY <1>1 DEF HookInv, OpInv, Linked
<1>4. L[f] \in Seq(Entry) /\ live \in [Funs -> Seq(Hooks)] /\ live[f] \in Seq(Hooks)
  BY <1>2 DEF HookInv, HookTypeOK
<1>5. es \in Seq(Entry) /\ e \in Entry /\ Prepended(entries, e, es)
  <2>1. /\ e \in Entry /\ e = entries[1] /\ es \in Seq(Entry) /\ Len(entries) = Len(es) + 1
        /\ \A i \in 1..Len(es) : es[i] = entries[i + 1]
    <3>1. /\ es \in Seq(Entry) /\ Len(es) = Len(entries) - 1
          /\ \A i \in 1..Len(es) : es[i] = entries[i + 1]
      BY <1>1, <1>3, HeadTailProperties
    <3>2. Len(entries) \in Nat /\ Len(entries) # 0 /\ 1 \in 1..Len(entries)
      BY <1>1, <1>3
    <3> QED BY <1>1, <3>1, <3>2
  <2> HIDE DEF e, es
  <2> QED BY <1>1, <2>1 DEF Prepended
<1>6. Target \in Targets /\ IsCode(Target, chunks)
  <2>1. CASE op.by \in Replacements
    BY <1>2, <1>3, <2>1 DEF Target, Targets, IsCode
  <2>2. CASE op.by \in Handlers
    <3>1. op.closure \in 1..Len(chunks) /\ op.closure # 0
      BY <1>3, <2>2 DEF IsClosure
    <3> QED BY <3>1 DEF Target, Targets, IsCode
  <2> QED BY <1>2, <2>1, <2>2
<1> HIDE DEF e, es
<1>7. Prepended(l2, e, L[f])
  <2>1. <<e>> \in Seq(Entry) /\ Len(<<e>>) = 1 /\ <<e>>[1] = e /\ 1 \in 1..1 /\ Len(L[f]) \in Nat
    BY <1>4, <1>5
  <2>2. /\ l2 \in Seq(Entry) /\ Len(l2) = Len(<<e>>) + Len(L[f])
        /\ \A i \in 1..Len(<<e>>) : l2[i] = <<e>>[i]
        /\ \A i \in 1..Len(L[f]) : l2[Len(<<e>>) + i] = L[f][i]
    BY <1>4, <2>1, ConcatFacts
  <2>3. Len(l2) = Len(L[f]) + 1 /\ l2[1] = e
    BY <2>1, <2>2
  <2>4. ASSUME NEW i \in 1..Len(L[f]) PROVE l2[i + 1] = L[f][i]
    <3>1. i + 1 = Len(<<e>>) + i
      BY <2>1
    <3> QED BY <2>2, <3>1
  <2> QED BY <2>2, <2>3, <2>4 DEF Prepended
<1>8. /\ new \in Seq(Hooks) /\ Len(new) = Len(live[f]) + 1 /\ new[1] = op.by
      /\ \A i \in 1..Len(live[f]) : new[i + 1] = live[f][i]
  <2> DEFINE h == op.by
  <2>1. h \in Hooks
    BY <1>2
  <2> HIDE DEF h
  <2>2. <<h>> \in Seq(Hooks) /\ Len(<<h>>) = 1 /\ <<h>>[1] = h /\ 1 \in 1..1 /\ Len(live[f]) \in Nat
    BY <1>4, <2>1
  <2>3. LET c == <<h>> \o live[f]
        IN  /\ c \in Seq(Hooks) /\ Len(c) = Len(<<h>>) + Len(live[f])
            /\ \A i \in 1..Len(<<h>>) : c[i] = <<h>>[i]
            /\ \A i \in 1..Len(live[f]) : c[Len(<<h>>) + i] = live[f][i]
    BY <1>4, <2>2, ConcatFacts
  <2>4. new = <<h>> \o live[f]
    BY DEF h
  <2> HIDE DEF new
  <2>5. Len(new) = Len(live[f]) + 1 /\ new[1] = h
    BY <2>2, <2>3, <2>4
  <2>6. ASSUME NEW i \in 1..Len(live[f]) PROVE new[i + 1] = live[f][i]
    <3>1. i + 1 = Len(<<h>>) + i
      BY <2>2
    <3> QED BY <2>3, <2>4, <3>1
  <2> QED BY <2>3, <2>4, <2>5, <2>6 DEF h
<1> HIDE DEF l2, new
<1>9. PICK L2 \in [Funs -> Seq(Entry)] : L2[f] = l2 /\ \A g \in Funs : g # f => L2[g] = L[g]
  <2> DEFINE M == [L EXCEPT ![f] = l2]
  <2>1. M \in [Funs -> Seq(Entry)] /\ M[f] = l2 /\ \A g \in Funs : g # f => M[g] = L[g]
    BY <1>2, <1>7 DEF Prepended
  <2> QED BY <2>1
<1>10. /\ live' \in [Funs -> Seq(Hooks)] /\ live'[f] = new
       /\ \A g \in Funs : g # f => live'[g] = live[g]
  BY <1>1, <1>2, <1>4, <1>8
<1>11. InEffect = es /\ InEffect' = entries
  <2>1. Pending /\ ~Pending'
    BY <1>1 DEF Pending
  <2> QED BY <1>1, <2>1 DEF InEffect, es
<1>12. EntriesInv(L2)'
  <2> SUFFICES ASSUME NEW g \in Funs
               PROVE  /\ OwnEntries(Address(g), L2[g], entries)
                      /\ Len(L2[g]) = Len(live'[g])
                      /\ \A i \in 1..Len(live'[g]) : L2[g][i].by = live'[g][i]
    BY <1>11 DEF EntriesInv
  <2>1. /\ OwnEntries(Address(g), L[g], es) /\ Len(L[g]) = Len(live[g])
        /\ \A i \in 1..Len(live[g]) : L[g][i].by = live[g][i]
    BY <1>11 DEF HookInv, EntriesInv
  <2>2. CASE g # f
    <3>1. e.address # Address(g)
      BY <1>2, <1>3, <2>2, AddressesDiffer
    <3>2. OwnEntries(Address(g), L[g], entries)
      BY <1>5, <2>1, <3>1, OthersPrepended
    <3> QED BY <1>9, <1>10, <2>1, <2>2, <3>2
  <2>3. CASE g = f
    <3>1. OwnEntries(Address(f), l2, entries)
      BY <1>3, <1>4, <1>5, <1>7, <2>1, <2>3, OwnPrepended
    <3> DEFINE n == Len(L[f])
    <3>2. /\ n \in Nat /\ Len(l2) = n + 1 /\ l2[1] = e /\ \A i \in 1..n : l2[i + 1] = L[f][i]
          /\ Len(new) = n + 1 /\ new[1] = e.by /\ \A i \in 1..n : new[i + 1] = live[f][i]
          /\ \A i \in 1..n : L[f][i].by = live[f][i]
      BY <1>3, <1>4, <1>7, <1>8, <2>1, <2>3 DEF Prepended
    <3> HIDE DEF n
    <3>3. ASSUME NEW i \in 1..n + 1 PROVE l2[i].by = new[i]
      <4>1. CASE i = 1
        BY <3>2, <4>1
      <4>2. CASE i # 1
        <5> DEFINE j == i - 1
        <5>1. j \in 1..n /\ j + 1 = i
          BY <3>2, <4>2
        <5> HIDE DEF j
        <5>2. l2[j + 1] = L[f][j] /\ new[j + 1] = live[f][j] /\ L[f][j].by = live[f][j]
          BY <3>2, <5>1
        <5> QED BY <5>1, <5>2
      <4> QED BY <4>1, <4>2
    <3> QED BY <1>9, <1>10, <2>3, <3>1, <3>2, <3>3
  <2> QED BY <2>2, <2>3
<1> DEFINE code == Trampoline(Target)
<1>13. /\ code \in Seq(CodeByte) /\ Len(code) = JumpSize
       /\ \A k \in 1..JumpSize : code[k] = [by |-> Target, k |-> k]
  BY <1>6, TrampolineType
<1>14. CodePatch(f, 1, code)
  BY <1>1
<1> HIDE DEF code
<1>15. /\ \A k \in 0..Span : bytes'[f][k] = IF k \in 1..JumpSize THEN code[k] ELSE bytes[f][k]
       /\ \A g \in Funs : g # f => bytes'[g] = bytes[g]
  <2>1. /\ \A k \in 0..Span : bytes'[f][k] = IF k \in 1..Len(code) THEN code[k] ELSE bytes[f][k]
        /\ \A g \in Funs : g # f => bytes'[g] = bytes[g]
    BY <1>1, <1>2, <1>13, <1>14, PatchFacts
  <2> QED BY <1>13, <2>1
<1>16. ASSUME NEW k \in 0..Span PROVE OrCode(bytes'[f][k].by, {Null}, chunks)
  <2>1. CASE k \in 1..JumpSize
    <3>1. bytes'[f][k].by = Target
      BY <1>13, <1>15, <2>1, SMTT(20)
    <3> QED BY <1>6, <3>1 DEF OrCode
  <2>2. CASE k \notin 1..JumpSize
    BY <1>2, <1>15, <2>2 DEF HookInv, CodeInv
  <2> QED BY <2>1, <2>2
<1>17. ASSUME f \notin starved PROVE Chained(f, L2[f], bytes'[f], chunks, origin)
  <2>1. Chained(f, L[f], bytes[f], chunks, origin) /\ Linked(e, f, Older(L[f], 0), chunks, origin)
    BY <1>2, <1>3, <1>17 DEF HookInv, ChainsInv
  <2>2. HeadIs(bytes'[f], e.target)
    <3> SUFFICES ASSUME NEW k \in 0..Span
                 PROVE  bytes'[f][k] = [by |-> IF k \in 1..JumpSize THEN e.target ELSE Null, k |-> k]
      BY DEF HeadIs
    <3>1. CASE k \in 1..JumpSize
      BY <1>3, <1>13, <1>15, <3>1
    <3>2. CASE k \notin 1..JumpSize
      <4>1. bytes[f][k] = [by |-> Null, k |-> k]
        BY <2>1, <3>2 DEF Chained, HeadIs
      <4> QED BY <1>15, <3>2, <4>1
    <3> QED BY <3>1, <3>2
  <2> QED BY <1>4, <1>7, <1>9, <2>1, <2>2, ChainGrows
<1>18. /\ HookTypeOK' /\ ChainsInv(L2)' /\ CodeInv' /\ SoundInv'
       /\ \A t \in Threads : call'[t] # Null => CallInv(call'[t], L2, chunks', prologue', starved')
  <2>1. /\ Disturb(f) /\ UNCHANGED <<prologue, chunks, origin, dead, starved>>
        /\ \A g \in Funs : g # f => L2[g] = L[g] /\ bytes'[g] = bytes[g]
    BY <1>1, <1>9, <1>15
  <2> HIDE DEF f
  <2> QED BY <1>2, <1>10, <1>16, <1>17, <2>1, PatchKeeps
<1>19. OpInv(L2)' /\ SavedInv(entries, chunks)'
  BY <1>1 DEF HookInv, OpInv
<1>20. HookInv(L2)'
  BY <1>12, <1>18, <1>19 DEF HookInv
<1> QED BY <1>9, <1>20

\* DobbyDestroy: what was saved is written back.
LEMMA DestroyStep ==
    ASSUME X86, NEW L \in [Funs -> Seq(Entry)], ArenaInv, HookInv(L), NEW f \in Funs, DobbyDestroy(f)
    PROVE  \E L2 \in [Funs -> Seq(Entry)] : HookInv(L2)'
<1> DEFINE m == Find(Address(f))
           e == entries[m]
           l == L[f]
           L2 == [L EXCEPT ![f] = Tail(l)]
           es2 == RemoveAt(entries, m)
           new == Tail(live[f])
<1>1. /\ entries \in Seq(Entry) /\ chunks \in Seq(Chunk) /\ bytes \in [Funs -> [0..Span -> CodeByte]]
      /\ l \in Seq(Entry) /\ live \in [Funs -> Seq(Hooks)] /\ live[f] \in Seq(Hooks)
  BY DEF ArenaInv, DobbyTypeOK, HookInv, HookTypeOK
<1>2. Address(f) - 0 = Address(f) /\ Address(f) - FunAt[f] + 1 = 1 /\ ~Arm
  <2>1. FunAt[f] \in Int /\ Flag[f] = 0 /\ ~Arm
    BY DobbyAssumption DEF X86
  <2> QED BY <2>1 DEF Address
<1>3. /\ op = Null /\ m # 0 /\ Disturb(f) /\ CodePatch(f, 1, e.saved) /\ entries' = es2
      /\ live' = [live EXCEPT ![f] = IF live[f] = << >> THEN live[f] ELSE new]
      /\ UNCHANGED <<prologue, chunks, origin, op, dead, starved>>
  BY <1>2 DEF DobbyDestroy, ClientIdle
<1>4. /\ m \in 1..Len(entries) /\ e \in Entry /\ e.address = Address(f)
      /\ \A i \in 1..Len(entries) : i < m => entries[i].address # Address(f)
  BY <1>1, <1>3, FindFacts
<1> HIDE DEF m
<1>5. InEffect = entries /\ InEffect' = es2
  BY <1>3 DEF InEffect, Pending
<1>6. /\ OwnEntries(Address(f), l, entries) /\ Len(l) = Len(live[f])
      /\ \A i \in 1..Len(live[f]) : l[i].by = live[f][i]
  BY <1>5 DEF HookInv, EntriesInv
<1>7. l # << >> /\ l[1] = e /\ OwnEntries(Address(f), Tail(l), es2)
  BY <1>1, <1>4, <1>6, OwnRemoved
<1>8. /\ live[f] # << >>
      /\ Tail(l) \in Seq(Entry) /\ Len(Tail(l)) = Len(l) - 1
      /\ \A i \in 1..Len(l) - 1 : Tail(l)[i] = l[i + 1]
      /\ new \in Seq(Hooks) /\ Len(new) = Len(l) - 1
      /\ \A i \in 1..Len(l) - 1 : new[i] = live[f][i + 1]
  <2>1. live[f] # << >>
    BY <1>1, <1>6, <1>7
  <2> QED BY <1>1, <1>6, <1>7, <2>1, HeadTailProperties
<1>9. \A i \in 1..Len(l) - 1 : Tail(l)[i].by = new[i]
  <2> DEFINE n == Len(l)
  <2>1. n \in Nat /\ n = Len(live[f])
    BY <1>1, <1>6
  <2> HIDE DEF n
  <2>2. ASSUME NEW i \in 1..n - 1 PROVE i + 1 \in 1..n
    BY <2>1
  <2>3. \A i \in 1..n - 1 : Tail(l)[i].by = new[i]
    BY <1>6, <1>8, <2>1, <2>2 DEF n
  <2> QED BY <2>3 DEF n
<1> HIDE DEF new, l
<1>10. /\ L2 \in [Funs -> Seq(Entry)] /\ L2[f] = Tail(l) /\ \A g \in Funs : g # f => L2[g] = L[g]
       /\ live' \in [Funs -> Seq(Hooks)] /\ live'[f] = new
       /\ \A g \in Funs : g # f => live'[g] = live[g]
  BY <1>1, <1>3, <1>8
<1> HIDE DEF L2
<1>11. EntriesInv(L2)'
  <2> SUFFICES ASSUME NEW g \in Funs
               PROVE  /\ OwnEntries(Address(g), L2[g], es2)
                      /\ Len(L2[g]) = Len(live'[g])
                      /\ \A i \in 1..Len(live'[g]) : L2[g][i].by = live'[g][i]
    BY <1>5 DEF EntriesInv
  <2>1. CASE g # f
    <3>1. /\ OwnEntries(Address(g), L[g], entries) /\ Len(L[g]) = Len(live[g])
          /\ \A i \in 1..Len(live[g]) : L[g][i].by = live[g][i]
      BY <1>5 DEF HookInv, EntriesInv
    <3>2. e.address # Address(g)
      BY <1>4, <2>1, AddressesDiffer
    <3>3. OwnEntries(Address(g), L[g], es2)
      BY <1>1, <1>4, <3>1, <3>2, OthersRemoved
    <3> QED BY <1>10, <2>1, <3>1, <3>3
  <2>2. CASE g = f
    BY <1>7, <1>8, <1>9, <1>10, <2>2
  <2> QED BY <2>1, <2>2
<1> DEFINE code == e.saved
<1>12. code \in Seq(CodeByte)
  BY <1>4 DEF Entry
<1>13. /\ \A k \in 0..Span : bytes'[f][k] = IF k \in 1..Len(code) THEN code[k] ELSE bytes[f][k]
       /\ \A g \in Funs : g # f => bytes'[g] = bytes[g]
  BY <1>1, <1>3, <1>12, PatchFacts
<1>14. ASSUME NEW k \in 0..Span PROVE OrCode(bytes'[f][k].by, {Null}, chunks)
  <2>1. CASE k \in 1..Len(code)
    <3>1. OrCode(code[k].by, {Null}, chunks)
      BY <1>4, <2>1 DEF HookInv, SavedInv
    <3> QED BY <1>13, <2>1, <3>1
  <2>2. CASE k \notin 1..Len(code)
    BY <1>13, <2>2 DEF HookInv, CodeInv
  <2> QED BY <2>1, <2>2
<1>15. ASSUME f \notin starved PROVE Chained(f, L2[f], bytes'[f], chunks, origin)
  <2>1. Chained(f, l, bytes[f], chunks, origin)
    BY <1>15 DEF HookInv, ChainsInv, l
  <2> DEFINE next == Older(l, 1)
             n == Len(code)
  <2>2. /\ JumpSize <= n /\ n \in Nat
        /\ \A k \in 1..n : code[k] = [by |-> IF k <= JumpSize THEN next ELSE Null, k |-> k]
    <3>1. 1 \in 1..Len(l)
      BY <1>1, <1>7 DEF l
    <3>2. Saves(e, next)
      BY <1>7, <2>1, <3>1 DEF Chained, Linked
    <3> QED BY <1>12, <3>2 DEF Saves
  <2>3. HeadIs(bytes[f], Older(l, 0))
    BY <2>1 DEF Chained
  <2> HIDE DEF next, n, code
  <2>4. HeadIs(bytes'[f], next)
    <3> SUFFICES ASSUME NEW k \in 0..Span
                 PROVE  bytes'[f][k] = [by |-> IF k \in 1..JumpSize THEN next ELSE Null, k |-> k]
      BY DEF HeadIs
    <3>1. k \in Nat /\ JumpSize \in Nat
      BY SpanType
    <3>2. CASE k \in 1..n
      <4>1. k <= JumpSize <=> k \in 1..JumpSize
        BY <3>1, <3>2
      <4>2. bytes'[f][k] = code[k]
        BY <1>13, <3>2 DEF n
      <4> QED BY <2>2, <3>2, <4>1, <4>2
    <3>3. CASE k \notin 1..n
      <4>1. k \notin 1..JumpSize
        BY <2>2, <3>1, <3>3
      <4>2. bytes[f][k] = [by |-> Null, k |-> k]
        BY <2>3, <4>1 DEF HeadIs
      <4>3. bytes'[f][k] = bytes[f][k]
        BY <1>13, <3>3 DEF n
      <4> QED BY <4>1, <4>2, <4>3
    <3> QED BY <3>2, <3>3
  <2> QED BY <1>1, <1>7, <1>10, <2>1, <2>4, ChainShrinks DEF next, l
<1>16. /\ HookTypeOK' /\ ChainsInv(L2)' /\ CodeInv' /\ SoundInv'
       /\ \A t \in Threads : call'[t] # Null => CallInv(call'[t], L2, chunks', prologue', starved')
  BY <1>3, <1>10, <1>13, <1>14, <1>15, PatchKeeps, ZenonT(40)
<1>17. SavedInv(entries, chunks)'
  <2> SUFFICES ASSUME NEW i \in 1..Len(es2), NEW k \in 1..Len(es2[i].saved)
               PROVE  OrCode(es2[i].saved[k].by, {Null}, chunks)
    BY <1>3 DEF SavedInv
  <2>1. /\ Len(es2) = Len(entries) - 1
        /\ \A j \in 1..Len(entries) - 1 : es2[j] = IF j < m THEN entries[j] ELSE entries[j + 1]
    BY <1>1, <1>4, RemoveAtFacts
  <2> HIDE DEF es2
  <2>2. Len(entries) \in Nat
    BY <1>1
  <2>3. PICK j \in 1..Len(entries) : es2[i] = entries[j]
    <3>1. i \in 1..Len(entries) /\ i + 1 \in 1..Len(entries)
      BY <2>1, <2>2
    <3> QED BY <2>1, <3>1
  <2> QED BY <2>3 DEF HookInv, SavedInv
<1>18. OpInv(L2)'
  BY <1>3 DEF OpInv
<1>19. HookInv(L2)'
  BY <1>11, <1>16, <1>17, <1>18 DEF HookInv
<1> QED BY <1>10, <1>19

-----------------------------------------------------------------------------
(* The theorems about hooking on x86 *)

\* Nothing is hooked yet.
LEMMA HookInit ==
    ASSUME DobbyInit PROVE \E L \in [Funs -> Seq(Entry)] : HookInv(L)
<1> DEFINE L == [f \in Funs |-> << >>]
<1>1. L \in [Funs -> Seq(Entry)] /\ \A f \in Funs : L[f] = << >> /\ Len(L[f]) = 0
  OBVIOUS
<1> HIDE DEF L
<1>2. /\ bytes = [f \in Funs |-> Own(f)] /\ chunks = << >> /\ entries = << >> /\ op = Null
      /\ origin = [r \in Replacements |-> 0] /\ call = [t \in Threads |-> Null] /\ dead = FALSE
      /\ live = [f \in Funs |-> << >>] /\ starved = {}
  BY DEF DobbyInit
<1>3. Len(chunks) = 0 /\ Len(entries) = 0
  BY <1>2
<1>4. HookTypeOK
  BY <1>2 DEF HookTypeOK
<1>5. \A f \in Funs, k \in 0..Span : bytes[f][k] = [by |-> Null, k |-> k]
  BY <1>2 DEF Own
<1>6. EntriesInv(L)
  <2> SUFFICES ASSUME NEW f \in Funs
               PROVE  /\ OwnEntries(Address(f), L[f], entries) /\ Len(L[f]) = Len(live[f])
                      /\ \A i \in 1..Len(live[f]) : L[f][i].by = live[f][i]
    BY <1>2 DEF EntriesInv, InEffect, Pending
  <2>1. live[f] = << >> /\ Len(live[f]) = 0
    BY <1>2
  <2> DEFINE p == [i \in 1..Len(L[f]) |-> 1]
  <2>2. p \in [1..Len(L[f]) -> 1..Len(entries)] /\ DOMAIN p = {}
    BY <1>1, <1>3
  <2>3. {i \in DOMAIN entries : entries[i].address = Address(f)} = {}
    BY <1>2
  <2> HIDE DEF p
  <2>4. Places(entries, Address(f), p)
    BY <2>2, <2>3 DEF Places
  <2>5. OwnEntries(Address(f), L[f], entries)
    BY <1>1, <2>2, <2>4 DEF OwnEntries
  <2> QED BY <1>1, <2>1, <2>5
<1>7. ChainsInv(L)
  <2> SUFFICES ASSUME NEW f \in Funs PROVE Chained(f, L[f], bytes[f], chunks, origin)
    BY DEF ChainsInv
  <2>1. Older(L[f], 0) = Null
    BY <1>1 DEF Older
  <2>2. HeadIs(bytes[f], Null)
    BY <1>5 DEF HeadIs
  <2> QED BY <1>1, <2>1, <2>2 DEF Chained
<1>8. OpInv(L) /\ SavedInv(entries, chunks) /\ SoundInv
  BY <1>2, <1>3 DEF OpInv, SavedInv, SoundInv
<1>9. CodeInv
  <2>1. ASSUME NEW f \in Funs, NEW k \in 0..Span PROVE OrCode(bytes[f][k].by, {Null}, chunks)
    <3>1. bytes[f][k] = [by |-> Null, k |-> k]
      BY <1>5
    <3>2. bytes[f][k].by = Null
      BY <3>1
    <3> QED BY <3>2 DEF OrCode
  <2>2. \A r \in Replacements : origin[r] = 0
    BY <1>2
  <2>3. \A c \in 1..Len(chunks) : FALSE
    BY <1>3
  <2> QED BY <2>1, <2>2, <2>3 DEF CodeInv
<1>10. \A t \in Threads : call[t] = Null
  BY <1>2
<1>11. HookInv(L)
  BY <1>4, <1>6, <1>7, <1>8, <1>9, <1>10 DEF HookInv
<1> QED BY <1>1, <1>11

\* Every step keeps the invariant, with the entries of the functions as they are
\* after the step.
LEMMA HookStep ==
    ASSUME X86, ArenaInv, NEW L \in [Funs -> Seq(Entry)], HookInv(L),
           [DobbyNext]_dobbyVars
    PROVE  \E L2 \in [Funs -> Seq(Entry)] : HookInv(L2)'
<1> USE DEF ArenaInv
<1>1. ASSUME NEW size \in 1..PageSize, NEW holds \in Holding, AllocateChunk(size, holds)
      PROVE  Grown(chunks', chunks) /\ chunks'[Len(chunks')].holds = holds
  <2>1. /\ Len(chunks') = Len(chunks) + 1 /\ \A c \in 1..Len(chunks) : chunks'[c] = chunks[c]
        /\ chunks'[Len(chunks) + 1].holds = holds
    BY <1>1, AllocateKeepsOrder DEF DobbyTypeOK
  <2>2. Len(chunks) \in Nat
    BY DEF DobbyTypeOK
  <2> QED BY <2>1, <2>2 DEF Grown
<1>2. op # Null => op \in Op /\ op.fun \in Funs /\ op.by \in Hooks
  BY DEF DobbyTypeOK, Op
<1>3. 32 \in 1..PageSize /\ BridgeSize \in 1..PageSize
  BY DobbyAssumption
<1>4. ASSUME NEW f \in Funs, NEW r \in Replacements, DobbyHook(f, r) PROVE HookInv(L)'
  <2>1. r \in Hooks /\ r \notin Handlers
    BY Distinct DEF Hooks
  <2>2. /\ op = Null /\ Free(r) /\ Begin(f, r, "copy")
        /\ UNCHANGED <<prologue, bytes, chunks, entries, origin, call, dead, live, starved>>
    BY <1>4 DEF DobbyHook, MayHook, ClientIdle
  <2> QED BY <2>1, <2>2, HookBegins
<1>5. ASSUME NEW f \in Funs, NEW h \in Handlers, DobbyInstrument(f, h) PROVE HookInv(L)'
  <2>1. h \in Hooks /\ h \notin Replacements
    BY Distinct DEF Hooks
  <2>2. /\ op = Null /\ Begin(f, h, "closure")
        /\ UNCHANGED <<prologue, bytes, chunks, entries, origin, call, dead, live, starved>>
    BY <1>5 DEF DobbyInstrument, MayHook, ClientIdle
  <2> QED BY <2>1, <2>2, HookBegins
<1>6. ASSUME CreateClosure PROVE HookInv(L)'
  <2> DEFINE h == [kind |-> "closure", by |-> op.by]
  <2>1. h \in Holding /\ AllocateChunk(32, h)
    BY <1>2, <1>6 DEF CreateClosure, Holding
  <2> HIDE DEF h
  <2>2. Grown(chunks', chunks) /\ chunks'[Len(chunks')].holds = h
    BY <1>1, <1>3, <2>1
  <2> QED BY <1>6, <2>2, ClosureStep DEF h
<1>7. ASSUME CreateBridge PROVE HookInv(L)'
  <2> DEFINE h == [kind |-> "bridge"]
  <2>1. h \in Holding /\ AllocateChunk(BridgeSize, h)
    BY <1>7 DEF CreateBridge, Holding
  <2> HIDE DEF h
  <2>2. Grown(chunks', chunks) /\ chunks'[Len(chunks')].holds = h
    BY <1>1, <1>3, <2>1
  <2> QED BY <1>7, <2>2, BridgeStep DEF h
<1>8. ASSUME GenerateRelocatedCode PROVE HookInv(L)'
  <2>1. op \in Op
    BY <1>2, <1>8 DEF GenerateRelocatedCode
  <2>2. Copy(op.fun) \in Holding /\ CopySize(op.fun) \in 1..PageSize
    BY <2>1, CopyType
  <2>3. AllocateChunk(CopySize(op.fun), Copy(op.fun))
    BY <1>8 DEF GenerateRelocatedCode, Copy
  <2>4. Grown(chunks', chunks) /\ chunks'[Len(chunks')].holds = Copy(op.fun)
    BY <1>1, <2>2, <2>3
  <2> QED BY <1>8, <2>4, GenerateStep
<1>9. ASSUME InstrumentFails \/ RelocationAborts \/ RelocationFails \/ SetOrigin
      PROVE  HookInv(L)'
  BY <1>9, InstrumentFailsStep, RelocationAbortsStep, RelocationFailsStep, SetOriginStep
<1>10. ASSUME NEW t \in Threads, InCall(t) \/ \E f \in Funs : Call(t, f) PROVE HookInv(L)'
  BY <1>10, CallStep, CallBegins
<1>11. ASSUME UNCHANGED dobbyVars PROVE HookInv(L)'
  <2>1. /\ UNCHANGED <<prologue, bytes, chunks, entries, origin, call, dead, live, starved>>
        /\ UNCHANGED op
    BY <1>11 DEF dobbyVars
  <2>2. InEffect' = InEffect
    BY <2>1 DEF InEffect, Pending
  <2>3. OpInv(L)'
    <3>1. Free(op.by)' <=> Free(op.by)
      BY <2>1 DEF Free
    <3>2. Target' = Target
      BY <2>1 DEF Target
    <3> QED BY <2>1, <3>1, <3>2 DEF HookInv, OpInv
  <2> QED BY <2>1, <2>2, <2>3, OnlyOpChanges, SameInEffect DEF HookInv
<1>12. ASSUME Commit \/ \E f \in Funs : DobbyDestroy(f)
       PROVE  \E L2 \in [Funs -> Seq(Entry)] : HookInv(L2)'
  BY <1>12, CommitStep, DestroyStep
<1>13. ASSUME HookInv(L)' PROVE \E L2 \in [Funs -> Seq(Entry)] : HookInv(L2)'
  BY <1>13
<1> QED BY <1>4, <1>5, <1>6, <1>7, <1>8, <1>9, <1>10, <1>11, <1>12, <1>13
        DEF DobbyNext, Client, Hooking

\* For some assignment of the entries to the functions the invariant holds.
Hooked == ArenaInv /\ \E L \in [Funs -> Seq(Entry)] : HookInv(L)

\* The invariant holds of any execution on x86.
THEOREM HookInvariance ==
    ASSUME X86 PROVE DobbySafety => []Hooked
<1>1. DobbyInit => \E L \in [Funs -> Seq(Entry)] : HookInv(L)
  BY HookInit
<1>2. ASSUME ArenaInv, \E L \in [Funs -> Seq(Entry)] : HookInv(L), [DobbyNext]_dobbyVars
      PROVE  (\E L \in [Funs -> Seq(Entry)] : HookInv(L))'
  <2>1. PICK L \in [Funs -> Seq(Entry)] : HookInv(L)
    BY <1>2
  <2> QED BY <1>2, <2>1, HookStep
<1> DEFINE Inv == \E L \in [Funs -> Seq(Entry)] : HookInv(L)
<1>3. DobbySafety => []ArenaInv
  BY ArenaInvariance
<1>4. (DobbyInit => Inv) /\ (ArenaInv /\ Inv /\ [DobbyNext]_dobbyVars => Inv')
  BY <1>1, <1>2
<1>5. ArenaInv /\ Inv => Hooked
  BY DEF Hooked
<1> HIDE DEF Inv
<1> QED BY <1>3, <1>4, <1>5, PTL DEF DobbySafety

\* On x86, whatever is hooked, instrumented and destroyed in whatever order: the
\* list that AddHookEntry and RemoveHookEntry keep has the hooks in effect.
THEOREM ListTellsTheTruth ==
    ASSUME X86 PROVE DobbySafety => []EntriesAreLive
<1>1. ASSUME Hooked PROVE EntriesAreLive
  <2> SUFFICES ASSUME op = Null, NEW f \in Funs
               PROVE  \E p \in [DOMAIN live[f] -> DOMAIN entries] :
                        /\ Places(entries, Address(f), p)
                        /\ \A i \in DOMAIN p : entries[p[i]].by = live[f][i]
    BY DEF EntriesAreLive
  <2>1. PICK L \in [Funs -> Seq(Entry)] : HookInv(L)
    BY <1>1 DEF Hooked
  <2>2. /\ OwnEntries(Address(f), L[f], entries) /\ Len(L[f]) = Len(live[f])
        /\ \A i \in 1..Len(live[f]) : L[f][i].by = live[f][i]
    BY <2>1 DEF HookInv, EntriesInv, InEffect, Pending
  <2>3. DOMAIN live[f] = 1..Len(live[f]) /\ DOMAIN entries = 1..Len(entries)
    BY <1>1, <2>1 DEF HookInv, HookTypeOK, Hooked, ArenaInv, DobbyTypeOK
  <2>4. PICK p \in [1..Len(L[f]) -> 1..Len(entries)] :
          Places(entries, Address(f), p) /\ \A i \in 1..Len(L[f]) : L[f][i] = entries[p[i]]
    BY <2>2 DEF OwnEntries
  <2>5. p \in [DOMAIN live[f] -> DOMAIN entries] /\ DOMAIN p = 1..Len(live[f])
    BY <2>2, <2>3, <2>4
  <2>6. ASSUME NEW i \in DOMAIN p PROVE entries[p[i]].by = live[f][i]
    <3>1. i \in 1..Len(live[f]) /\ i \in 1..Len(L[f])
      BY <2>2, <2>5
    <3>2. L[f][i] = entries[p[i]] /\ L[f][i].by = live[f][i]
      BY <2>2, <2>4, <3>1
    <3> QED BY <3>2
  <2>7. Places(entries, Address(f), p)
    BY <2>4
  <2> QED BY <2>5, <2>6, <2>7, Zenon
<1> QED BY <1>1, HookInvariance, PTL

\* On x86 DobbyDestroy puts back what the function was before the hook it takes
\* down, however deep hooks were piled up.
THEOREM HeadAlwaysRestored ==
    ASSUME X86 PROVE DobbySafety => []HeadRestored
<1>1. ASSUME Hooked PROVE HeadRestored
  <2> SUFFICES ASSUME op = Null, NEW f \in Funs, f \notin starved
               PROVE  /\ Whole(f)
                      /\ live[f] = << >> => bytes[f] = Own(f)
                      /\ live[f] # << >> => JumpsTo(f) = Newest(f).target
    BY DEF HeadRestored
  <2>1. PICK L \in [Funs -> Seq(Entry)] : HookInv(L)
    BY <1>1 DEF Hooked
  <2> DEFINE l == L[f]
  <2>2. /\ OwnEntries(Address(f), l, entries) /\ Len(l) = Len(live[f]) /\ l \in Seq(Entry)
        /\ live[f] \in Seq(Hooks) /\ entries \in Seq(Entry)
        /\ bytes[f] \in [0..Span -> CodeByte]
    BY <1>1, <2>1 DEF HookInv, HookTypeOK, EntriesInv, InEffect, Pending, Hooked, ArenaInv, DobbyTypeOK
  <2>3. HeadIs(bytes[f], Older(l, 0))
    BY <2>1 DEF HookInv, ChainsInv, Chained
  <2>4. 1 \in 0..Span /\ 1 \in 1..JumpSize /\ \A k \in 1..JumpSize : k \in 0..Span
    BY SpanType
  <2>5. JumpsTo(f) = Older(l, 0) /\ Whole(f)
    <3>1. bytes[f][1] = [by |-> Older(l, 0), k |-> 1]
      BY <2>3, <2>4 DEF HeadIs
    <3>2. JumpsTo(f) = Older(l, 0)
      BY <3>1 DEF JumpsTo
    <3> QED BY <2>3, <2>4, <3>2 DEF HeadIs, Whole, JumpsTo
  <2>6. ASSUME live[f] = << >> PROVE bytes[f] = Own(f)
    <3>1. Older(l, 0) = Null
      BY <2>2, <2>6 DEF Older
    <3>2. \A k \in 0..Span : bytes[f][k] = [by |-> Null, k |-> k]
      BY <2>3, <3>1 DEF HeadIs
    <3> QED BY <2>2, <3>2 DEF Own
  <2>7. ASSUME live[f] # << >> PROVE JumpsTo(f) = Newest(f).target
    <3> DEFINE m == Find(Address(f))
    <3>1. 0 # Len(l) /\ 1 \in 1..Len(l) /\ Len(l) \in Nat
      BY <2>2, <2>7
    <3>2. PICK p \in [1..Len(l) -> 1..Len(entries)] :
            Places(entries, Address(f), p) /\ \A i \in 1..Len(l) : l[i] = entries[p[i]]
      BY <2>2 DEF OwnEntries
    <3>3. InPlace(entries, Address(f), p, Len(l))
      BY <2>2, <3>1, <3>2, PlacesMeans
    <3>4. entries[p[1]].address = Address(f) /\ p[1] \in 1..Len(entries)
      BY <3>1, <3>2, <3>3 DEF InPlace
    <3>5. m # 0 /\ m \in 1..Len(entries) /\ entries[m].address = Address(f)
          /\ \A i \in 1..Len(entries) : i < m => entries[i].address # Address(f)
      BY <2>2, <3>4, FindFacts
    <3> HIDE DEF m
    <3>6. l[1] = entries[m]
      BY <2>2, <3>5, OwnRemoved
    <3>7. Older(l, 0) = l[1].target
      BY <3>1 DEF Older
    <3> QED BY <2>5, <3>5, <3>6, <3>7 DEF Newest, m
  <2> QED BY <2>5, <2>6, <2>7
<1> QED BY <1>1, HookInvariance, PTL

\* On x86, for any number of threads, functions and hooks: a call that the client
\* does not disturb runs the hooks in effect, each once, newest first, and then
\* the function; a call goes astray only at a branch the relocation mistakes.
THEOREM CallsAlwaysRunLive ==
    ASSUME X86 PROVE DobbySafety => []CallsRunLive
<1>1. ASSUME Hooked PROVE CallsRunLive
  <2>1. PICK L \in [Funs -> Seq(Entry)] : HookInv(L)
    BY <1>1 DEF Hooked
  <2> SUFFICES ASSUME NEW t \in Threads, call[t] # Null
               PROVE  /\ (call[t].clean /\ call[t].fun \notin starved) =>
                           /\ IsPrefix(call[t].ran, live[call[t].fun])
                           /\ call[t].at = "body" =>
                                call[t].ran = live[call[t].fun] /\ call[t].where = call[t].fun
                      /\ call[t].at = "astray" => HasBranch(prologue[call[t].where])
    BY DEF CallsRunLive, HasBranch
  <2> DEFINE c == call[t]
             f == c.fun
             l == L[f]
             n == Len(c.ran)
  <2>2. c \in Calls /\ CallInv(c, L, chunks, prologue, starved)
    BY <2>1 DEF HookInv, HookTypeOK
  <2>3. /\ f \in Funs /\ c.ran \in Seq(Hooks) /\ live[f] \in Seq(Hooks) /\ l \in Seq(Entry)
        /\ n \in Nat /\ Len(l) \in Nat
    BY <2>1, <2>2 DEF Calls, HookInv, HookTypeOK
  <2>4. Len(l) = Len(live[f]) /\ \A i \in 1..Len(live[f]) : l[i].by = live[f][i]
    BY <2>1, <2>3 DEF HookInv, EntriesInv
  <2>5. ASSUME c.clean, f \notin starved
        PROVE  /\ IsPrefix(c.ran, live[f])
               /\ c.at = "body" => c.ran = live[f] /\ c.where = f
    <3>1. OnItsWay(c, l)
      BY <2>2, <2>5 DEF CallInv
    <3>2. n <= Len(l) /\ \A i \in 1..n : c.ran[i] = l[i].by
      BY <3>1 DEF OnItsWay
    <3>3. \A i \in 1..n : i \in 1..Len(l) /\ c.ran[i] = live[f][i]
      BY <2>3, <2>4, <3>2
    <3>4. IsPrefix(c.ran, live[f])
      <4>1. DOMAIN c.ran = 1..n
        BY <2>3
      <4> QED BY <2>3, <2>4, <3>2, <3>3, <4>1 DEF IsPrefix
    <3>5. ASSUME c.at = "body" PROVE c.ran = live[f] /\ c.where = f
      <4>1. c.where = Behind(f, Older(l, n))
        BY <3>1, <3>5 DEF OnItsWay
      <4>2. c.where \in Funs
        BY <2>2, <3>5 DEF CallInv
      <4>3. n = Len(l)
        <5> SUFFICES ASSUME n # Len(l) PROVE FALSE
          OBVIOUS
        <5>1. n + 1 \in 1..Len(l)
          BY <2>3, <3>2
        <5>2. l[n + 1] \in Entry
          BY <2>3, <5>1
        <5>3. l[n + 1].target \in Targets
          BY <5>2 DEF Entry
        <5>4. \A x \in Targets : x # Null /\ x \notin Funs
          BY DobbyAssumption DEF Targets, Hooks
        <5>5. c.where = l[n + 1].target
          BY <4>1, <5>3, <5>4 DEF Behind, Older
        <5> QED BY <4>2, <5>3, <5>4, <5>5
      <4>4. c.ran = live[f]
        BY <2>3, <2>4, <3>3, <4>3, SeqEqual
      <4>5. c.where = f
        BY <4>1, <4>3 DEF Behind, Older
      <4> QED BY <4>4, <4>5
    <3> QED BY <3>4, <3>5
  <2>6. c.at = "astray" => HasBranch(prologue[c.where])
    BY <2>2 DEF CallInv
  <2> QED BY <2>5, <2>6
<1> QED BY <1>1, HookInvariance, PTL

\* A thread is led to a null or a torn address only where memory ran out.
LEMMA CrashStarved ==
    ASSUME ArenaInv, NEW L \in [Funs -> Seq(Entry)], HookInv(L), NEW t \in Threads, Crash(t)
    PROVE  starved # {}
<1> SUFFICES ASSUME starved = {} PROVE FALSE
  OBVIOUS
<1> DEFINE c == call[t]
           f == c.fun
           l == L[f]
<1>1. chunks \in Seq(Chunk) /\ HookTypeOK
  BY DEF ArenaInv, DobbyTypeOK, HookInv
<1>2. ASSUME c # Null
      PROVE  /\ f \in Funs /\ CallInv(c, L, chunks, prologue, starved)
             /\ Chained(f, l, bytes[f], chunks, origin)
  <2>1. f \in Funs
    BY <1>1, <1>2 DEF HookTypeOK, Calls
  <2> QED BY <1>2, <2>1 DEF HookInv, ChainsInv
<1>3. CASE At(t, "head") /\ ~Whole(f)
  <2>1. c # Null
    BY <1>3 DEF At
  <2>2. HeadIs(bytes[f], Older(l, 0))
    BY <1>2, <2>1 DEF Chained
  <2>3. \A k \in 1..JumpSize : bytes[f][k] = [by |-> Older(l, 0), k |-> k]
    <3>1. \A k \in 1..JumpSize : k \in 0..Span
      BY SpanType
    <3> QED BY <2>2, <3>1 DEF HeadIs
  <2>4. bytes[f][1].by = Older(l, 0)
    <3>1. 1 \in 1..JumpSize
      BY SpanType
    <3>2. bytes[f][1] = [by |-> Older(l, 0), k |-> 1]
      BY <2>3, <3>1
    <3> QED BY <3>2
  <2> QED BY <1>3, <2>3, <2>4 DEF Whole
<1>4. CASE At(t, "replacement") /\ origin[c.where] = 0
  <2>1. c # Null /\ c.at = "replacement"
    BY <1>4 DEF At
  <2>2. c.where \in Replacements /\ Sound(c.where, chunks, origin)
    BY <1>2, <2>1 DEF CallInv, HookInv, SoundInv
  <2> QED BY <1>4, <2>2 DEF Sound
<1>5. CASE InChunk(t, "closure") /\ Hops(t) = {}
  <2>1. c # Null /\ c.at = "chunk" /\ chunks[c.where].holds.kind = "closure"
    BY <1>5 DEF InChunk, At
  <2>2. c.where \in 1..Len(chunks) /\ Sound(c.where, chunks, origin)
    BY <1>2, <2>1 DEF CallInv, HookInv, SoundInv
  <2>3. PICK d \in 1..Len(chunks) : CopyOf(d, c.where, chunks)
    BY <2>1, <2>2 DEF Sound
  <2>4. d \in Hops(t)
    BY <1>1, <2>3 DEF Hops, CopyOf, IsCopy
  <2> QED BY <1>5, <2>4
<1> QED BY <1>3, <1>4, <1>5 DEF Crash

\* A dead process takes no step, and an action kills it only by aborting the
\* relocation, for want of memory or in a call.
LEMMA Deaths ==
    ASSUME DobbyNext
    PROVE  /\ ~dead
           /\ dead' => \/ InstrumentFails \/ RelocationAborts
                       \/ \E t \in Threads : Crash(t)
<1>1. ASSUME Client PROVE ~dead /\ ~dead'
  BY <1>1 DEF Client, DobbyHook, DobbyInstrument, DobbyDestroy, MayHook, ClientIdle
<1>2. ASSUME CreateClosure \/ CreateBridge \/ GenerateRelocatedCode \/ RelocationFails
             \/ SetOrigin \/ Commit
      PROVE  ~dead /\ ~dead'
  BY <1>2 DEF CreateClosure, CreateBridge, GenerateRelocatedCode, RelocationFails, SetOrigin, Commit
<1>3. ASSUME InstrumentFails \/ RelocationAborts PROVE ~dead
  BY <1>3 DEF InstrumentFails, RelocationAborts
<1>4. ASSUME NEW t \in Threads, NEW f \in Funs, Call(t, f) PROVE ~dead /\ ~dead'
  BY <1>4 DEF Call
<1>5. ASSUME NEW t \in Threads, InCall(t) PROVE ~dead /\ (~dead' \/ Crash(t))
  BY <1>5 DEF InCall, EnterHead, Replace, CallOrigin, ForwardHandler, RunCopy, GoAstray, Crash,
     Return, InChunk, At
<1> QED BY <1>1, <1>2, <1>3, <1>4, <1>5 DEF DobbyNext, Hooking

\* On x86 the process ends only over an instruction that the relocation does not
\* know, or for want of memory, whatever the order of hooking, destroying and
\* calling.
THEOREM EveryCrashExplained ==
    ASSUME X86 PROVE DobbySafety => []CrashesAccountedFor
<1>1. DobbyInit => CrashesAccountedFor
  BY DEF DobbyInit, CrashesAccountedFor
<1>2. ASSUME Hooked, CrashesAccountedFor, [DobbyNext]_dobbyVars PROVE CrashesAccountedFor'
  <2>1. CASE UNCHANGED dobbyVars
    BY <1>2, <2>1 DEF dobbyVars, CrashesAccountedFor, Aborted, Unsupported, Covered, Instructions,
       JumpsTo
  <2>2. CASE DobbyNext /\ dead'
    <3>1. CASE InstrumentFails
      BY <3>1 DEF InstrumentFails, CrashesAccountedFor
    <3>2. CASE RelocationAborts
      <4>1. /\ op \in Op /\ op' = [op EXCEPT !.stage = "aborted"] /\ Unsupported(op.fun)
            /\ UNCHANGED <<prologue, bytes>>
        BY <1>2, <3>2 DEF RelocationAborts, Hooked, ArenaInv, DobbyTypeOK
      <4>2. op' \in Op /\ op'.stage = "aborted" /\ op'.fun = op.fun
        BY <4>1 DEF Op
      <4>3. op' # Null
        BY <4>2, DobbyAssumption
      <4>4. Unsupported(op.fun)'
        BY <4>1, <4>2 DEF Unsupported, Covered, Instructions, JumpsTo
      <4> QED BY <4>2, <4>3, <4>4 DEF CrashesAccountedFor, Aborted
    <3>3. CASE \E t \in Threads : Crash(t)
      <4>1. PICK t \in Threads : Crash(t)
        BY <3>3
      <4>2. PICK L \in [Funs -> Seq(Entry)] : HookInv(L)
        BY <1>2 DEF Hooked
      <4>3. starved # {}
        BY <1>2, <4>1, <4>2, CrashStarved DEF Hooked
      <4>4. starved' = starved
        BY <4>1 DEF Crash, unpatched, clientVars
      <4> QED BY <4>3, <4>4 DEF CrashesAccountedFor
    <3> QED BY <2>2, <3>1, <3>2, <3>3, Deaths
  <2>3. CASE ~dead'
    BY <2>3 DEF CrashesAccountedFor
  <2> QED BY <1>2, <2>1, <2>2, <2>3
<1> QED BY <1>1, <1>2, HookInvariance, PTL DEF DobbySafety
=============================================================================
