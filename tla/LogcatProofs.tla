---------------------------- MODULE LogcatProofs ----------------------------
(***************************************************************************)
(* What holds of the call log and of the formatter for every number of     *)
(* threads, every set of classes, objects and formats, and calls nested to *)
(* any depth.                                                              *)
(***************************************************************************)
EXTENDS Logcat, FormatEntry, SequenceFacts, FiniteSetTheorems

-----------------------------------------------------------------------------
(* The inductive invariant of the call log *)

CallRecords == [class : Classes, phase : {"before", "body", "after"}, patched : BOOLEAN,
                indent : Nat \cup {Null}, exit : Int \cup {Null}, elided : BOOLEAN]

LogTypeOK ==
    /\ traced \in SUBSET Classes
    /\ ignores \in [Threads -> BOOLEAN] /\ unshown \in [Threads -> BOOLEAN]
    /\ depths \in [Threads -> Int \cup {Null}]
    /\ records \in [Threads -> Classes \cup {Null}]
    /\ above \in [Threads -> Classes \cup {Null}]
    /\ stack \in [Threads -> Seq(CallRecords)]

\* What relates the calls a thread is in to its thread-locals.

\* At most one call formats, and the flag says whether one does; what is called
\* under it is not logged, and only there a call that has the Logcat is not.
Formats(call) == call.phase \in {"before", "after"}
OneFormats(calls, ignoring) ==
    /\ ignoring <=> \E i \in 1..Len(calls) : Formats(calls[i])
    /\ \A i, j \in 1..Len(calls) :
         Formats(calls[i]) /\ i < j => ~Formats(calls[j]) /\ calls[j].indent = Null
    /\ \A i \in 1..Len(calls) :
         /\ Formats(calls[i]) => calls[i].indent # Null
         /\ calls[i].indent # Null => calls[i].patched
         /\ calls[i].patched /\ calls[i].indent = Null =>
              \E j \in 1..Len(calls) : j < i /\ Formats(calls[j])

\* The entry line of an open call is indented by the open calls around it, and
\* the depth is that of the innermost.
Depth(depth) == IF depth = Null THEN -1 ELSE depth
IndentsCount(calls, depth) ==
    /\ Depth(depth) + 1 = Cardinality(OpenCalls(calls, Len(calls)))
    /\ \A i \in OpenCalls(calls, Len(calls)) :
         calls[i].indent + 1 = Cardinality(OpenCalls(calls, i))
    /\ depth = Null => \A i \in 1..Len(calls) : ~calls[i].patched
    /\ \A i \in 1..Len(calls) : calls[i].phase = "after" => calls[i].exit = calls[i].indent

\* The recorded name is on the line above, or was never shown; while a call
\* formats its entry line the name is its own.
RecordIsAbove(calls, record, line, hidden) ==
    /\ record # Null /\ ~hidden /\ (\A i \in 1..Len(calls) : calls[i].phase # "before")
         => line = record
    /\ \A i \in 1..Len(calls) :
         /\ calls[i].phase = "before" =>
              record = calls[i].class /\ (calls[i].elided /\ ~hidden => line = calls[i].class)
         /\ calls[i].phase = "after" => record = Null

LogInv ==
    /\ LogTypeOK
    /\ \A t \in Threads : /\ OneFormats(stack[t], ignores[t])
                          /\ IndentsCount(stack[t], depths[t])
                          /\ RecordIsAbove(stack[t], records[t], above[t], unshown[t])

-----------------------------------------------------------------------------
(* Open calls *)

\* There are finitely many open calls.
LEMMA OpenFinite ==
    ASSUME NEW s, NEW n \in Nat
    PROVE  IsFiniteSet(OpenCalls(s, n)) /\ Cardinality(OpenCalls(s, n)) \in Nat
<1>1. IsFiniteSet(1..n)
  BY FS_Interval
<1>2. OpenCalls(s, n) \subseteq 1..n
  BY DEF OpenCalls
<1>3. IsFiniteSet(OpenCalls(s, n))
  BY <1>1, <1>2, FS_Subset
<1> QED BY <1>3, FS_CardinalityType

\* A call is pushed, replaced or popped: what the others contribute stays.
LEMMA OpenSame ==
    ASSUME NEW s, NEW s2, NEW n \in Nat,
           \A i \in 1..n : /\ s2[i].indent = s[i].indent
                           /\ s2[i].phase \in {"before", "body"} <=> s[i].phase \in {"before", "body"}
    PROVE  OpenCalls(s2, n) = OpenCalls(s, n)
BY DEF OpenCalls

\* One more call, open or not.
LEMMA OpenNext ==
    ASSUME NEW s, NEW n \in Nat
    PROVE  /\ n + 1 \in OpenCalls(s, n + 1) =>
                Cardinality(OpenCalls(s, n + 1)) = Cardinality(OpenCalls(s, n)) + 1
           /\ n + 1 \notin OpenCalls(s, n + 1) => OpenCalls(s, n + 1) = OpenCalls(s, n)
<1>1. n + 1 \notin OpenCalls(s, n) /\ IsFiniteSet(OpenCalls(s, n))
  BY OpenFinite DEF OpenCalls
<1>2. 1..n + 1 = (1..n) \cup {n + 1}
  OBVIOUS
<1>3. CASE n + 1 \in OpenCalls(s, n + 1)
  <2>1. OpenCalls(s, n + 1) = OpenCalls(s, n) \cup {n + 1}
    BY <1>2, <1>3 DEF OpenCalls
  <2> QED BY <1>1, <1>3, <2>1, FS_AddElement
<1>4. CASE n + 1 \notin OpenCalls(s, n + 1)
  BY <1>2, <1>4 DEF OpenCalls
<1> QED BY <1>3, <1>4

-----------------------------------------------------------------------------
(* What each operation does to one thread *)

\* A call that is not logged: it has no Logcat, or its caller is formatting.
LEMMA PushUnlogged ==
    ASSUME NEW s \in Seq(CallRecords), NEW call \in CallRecords,
           NEW ig \in BOOLEAN, NEW d \in Int \cup {Null}, NEW r, NEW a, NEW u,
           OneFormats(s, ig), IndentsCount(s, d), RecordIsAbove(s, r, a, u),
           call.phase = "body", call.indent = Null, call.patched => ig
    PROVE  LET s2 == Append(s, call)
           IN  OneFormats(s2, ig) /\ IndentsCount(s2, d) /\ RecordIsAbove(s2, r, a, u)
<1> DEFINE s2 == Append(s, call)
<1> DEFINE n == Len(s)
<1>1. /\ n \in Nat /\ s2 \in Seq(CallRecords) /\ Len(s2) = n + 1 /\ s2[n + 1] = call
      /\ \A i \in 1..n : s2[i] = s[i]
  BY PushFacts
<1>2. \A i \in 1..n + 1 : i \in 1..n \/ i = n + 1
  BY <1>1
<1>3. \A i \in 1..n : i \in 1..n + 1 /\ i < n + 1
  BY <1>1
<1> HIDE DEF s2, n
<1>4. ~Formats(call)
  BY DEF Formats
<1>5. OneFormats(s2, ig)
  <2>1. ig <=> \E i \in 1..n + 1 : Formats(s2[i])
    BY <1>1, <1>2, <1>3, <1>4 DEF OneFormats, n
  <2>2. ASSUME NEW i \in 1..n + 1, NEW j \in 1..n + 1, Formats(s2[i]), i < j
        PROVE  ~Formats(s2[j]) /\ s2[j].indent = Null
    <3>1. i \in 1..n
      BY <1>1, <1>2, <1>4, <2>2
    <3>2. CASE j = n + 1
      BY <1>1, <1>4, <3>2
    <3>3. CASE j \in 1..n
      BY <1>1, <2>2, <3>1, <3>3 DEF OneFormats, n
    <3> QED BY <1>2, <3>2, <3>3
  <2>3. ASSUME NEW i \in 1..n + 1
        PROVE  /\ Formats(s2[i]) => s2[i].indent # Null
               /\ s2[i].indent # Null => s2[i].patched
               /\ s2[i].patched /\ s2[i].indent = Null =>
                    \E j \in 1..n + 1 : j < i /\ Formats(s2[j])
    <3>1. CASE i \in 1..n
      <4>1. s2[i] = s[i]
        BY <1>1, <3>1
      <4>2. /\ Formats(s2[i]) => s2[i].indent # Null
            /\ s2[i].indent # Null => s2[i].patched
            /\ s2[i].patched /\ s2[i].indent = Null =>
                 \E j \in 1..n : j < i /\ Formats(s[j])
        BY <3>1, <4>1, Zenon DEF OneFormats, n
      <4> QED BY <1>1, <1>3, <4>2
    <3>2. CASE i = n + 1
      <4>1. s2[i] = call
        BY <1>1, <3>2
      <4>2. ig => \E j \in 1..n : Formats(s[j])
        BY DEF OneFormats, n
      <4>3. ig => \E j \in 1..n + 1 : j < i /\ Formats(s2[j])
        BY <1>1, <1>3, <3>2, <4>2
      <4> QED BY <1>4, <4>1, <4>3
    <3> QED BY <1>2, <3>1, <3>2
  <2> QED BY <1>1, <2>1, <2>2, <2>3 DEF OneFormats
<1>6. IndentsCount(s2, d)
  <2>1. OpenCalls(s2, n + 1) = OpenCalls(s2, n)
    <3>1. n + 1 \notin OpenCalls(s2, n + 1)
      BY <1>1 DEF OpenCalls
    <3> QED BY <1>1, <3>1, OpenNext
  <2>2. ASSUME NEW k \in Nat, k <= n PROVE OpenCalls(s2, k) = OpenCalls(s, k)
    <3>1. \A i \in 1..k : s2[i] = s[i]
      BY <1>1, <2>2
    <3> QED BY <3>1 DEF OpenCalls
  <2>3. Depth(d) + 1 = Cardinality(OpenCalls(s2, n + 1))
    BY <1>1, <2>1, <2>2 DEF IndentsCount, n
  <2>4. ASSUME NEW i \in OpenCalls(s2, n + 1)
        PROVE  s2[i].indent + 1 = Cardinality(OpenCalls(s2, i))
    <3>1. i \in OpenCalls(s, n) /\ i \in 1..n
      BY <1>1, <2>1, <2>2, <2>4 DEF OpenCalls
    <3>2. s[i].indent + 1 = Cardinality(OpenCalls(s, i))
      BY <3>1 DEF IndentsCount, n
    <3> QED BY <1>1, <2>2, <3>1, <3>2
  <2>5. d = Null => \A i \in 1..n + 1 : ~s2[i].patched
    <3> SUFFICES ASSUME d = Null PROVE \A i \in 1..n + 1 : ~s2[i].patched
      OBVIOUS
    <3>1. \A i \in 1..n : ~s[i].patched
      BY DEF IndentsCount, n
    <3>2. \A i \in 1..n : ~Formats(s[i])
      BY <3>1 DEF OneFormats, n
    <3>3. ~ig
      BY <3>2 DEF OneFormats, n
    <3> QED BY <1>1, <1>2, <3>1, <3>3
  <2>6. \A i \in 1..n + 1 : s2[i].phase = "after" => s2[i].exit = s2[i].indent
    BY <1>1, <1>2, <1>4 DEF IndentsCount, n, Formats
  <2> QED BY <1>1, <2>3, <2>4, <2>5, <2>6 DEF IndentsCount
<1>7. RecordIsAbove(s2, r, a, u)
  <2>1. (\A i \in 1..n + 1 : s2[i].phase # "before") => \A i \in 1..n : s[i].phase # "before"
    BY <1>1, <1>3
  <2>2. r # Null /\ ~u /\ (\A i \in 1..n + 1 : s2[i].phase # "before") => a = r
    BY <2>1 DEF RecordIsAbove, n
  <2>3. ASSUME NEW i \in 1..n + 1
        PROVE  /\ s2[i].phase = "before" =>
                    r = s2[i].class /\ (s2[i].elided /\ ~u => a = s2[i].class)
               /\ s2[i].phase = "after" => r = Null
    <3>1. CASE i \in 1..n
      <4>1. s2[i] = s[i]
        BY <1>1, <3>1
      <4> QED BY <3>1, <4>1, Zenon DEF RecordIsAbove, n
    <3>2. CASE i = n + 1
      BY <1>1, <3>2
    <3> QED BY <1>2, <3>1, <3>2
  <2> QED BY <1>1, <2>2, <2>3 DEF RecordIsAbove
<1> QED BY <1>5, <1>6, <1>7 DEF s2

\* A call that is logged: nobody formats, so the name recorded is the one above.
LEMMA PushLogged ==
    ASSUME NEW s \in Seq(CallRecords), NEW call \in CallRecords, NEW d \in Int \cup {Null},
           NEW r, NEW a, NEW u, NEW c \in Classes,
           OneFormats(s, FALSE), IndentsCount(s, d), RecordIsAbove(s, r, a, u),
           call.phase = "before", call.patched, call.indent = Depth(d) + 1,
           call.class = c, call.elided <=> r = c
    PROVE  LET s2 == Append(s, call)
           IN  /\ OneFormats(s2, TRUE) /\ IndentsCount(s2, Depth(d) + 1)
               /\ RecordIsAbove(s2, c, a, u)
<1> DEFINE s2 == Append(s, call)
<1> DEFINE n == Len(s)
<1>1. /\ n \in Nat /\ s2 \in Seq(CallRecords) /\ Len(s2) = n + 1 /\ s2[n + 1] = call
      /\ \A i \in 1..n : s2[i] = s[i]
  BY PushFacts
<1>2. \A i \in 1..n + 1 : i \in 1..n \/ i = n + 1
  BY <1>1
<1>3. /\ \A i \in 1..n : i \in 1..n + 1 /\ i < n + 1
      /\ n + 1 \in 1..n + 1
  BY <1>1
<1>4. \A i \in 1..n : ~Formats(s[i])
  BY DEF OneFormats
<1> HIDE DEF s2, n
<1>5. Formats(call) /\ Null \notin Int /\ Null \notin Classes
  BY LogcatAssumption DEF Formats
<1>6. Depth(d) + 1 \in Nat /\ Depth(d) \in Int
  <2>1. Depth(d) + 1 = Cardinality(OpenCalls(s, n))
    BY DEF IndentsCount, n
  <2> QED BY <1>1, <2>1, OpenFinite DEF Depth
<1>7. call.indent # Null
  BY <1>5, <1>6
<1>8. OneFormats(s2, TRUE)
  <2>1. \E i \in 1..n + 1 : Formats(s2[i])
    BY <1>1, <1>3, <1>5
  <2>2. ASSUME NEW i \in 1..n + 1, NEW j \in 1..n + 1, Formats(s2[i]), i < j PROVE FALSE
    <3>1. i \in 1..n
      BY <1>1, <1>2, <2>2
    <3> QED BY <1>1, <1>4, <2>2, <3>1
  <2>3. ASSUME NEW i \in 1..n + 1
        PROVE  /\ Formats(s2[i]) => s2[i].indent # Null
               /\ s2[i].indent # Null => s2[i].patched
               /\ s2[i].patched => s2[i].indent # Null
    <3>1. CASE i \in 1..n
      <4>1. s2[i] = s[i]
        BY <1>1, <3>1
      <4> QED BY <1>4, <3>1, <4>1 DEF OneFormats, n
    <3>2. CASE i = n + 1
      BY <1>1, <1>7, <3>2
    <3> QED BY <1>2, <3>1, <3>2
  <2> QED BY <1>1, <2>1, <2>2, <2>3 DEF OneFormats
<1>9. IndentsCount(s2, Depth(d) + 1)
  <2>1. ASSUME NEW k \in Nat, k <= n PROVE OpenCalls(s2, k) = OpenCalls(s, k)
    <3>1. \A i \in 1..k : s2[i] = s[i]
      BY <1>1, <2>1
    <3> QED BY <3>1 DEF OpenCalls
  <2>2. Cardinality(OpenCalls(s2, n + 1)) = Cardinality(OpenCalls(s, n)) + 1
    <3>1. n + 1 \in OpenCalls(s2, n + 1)
      BY <1>1, <1>3, <1>7 DEF OpenCalls
    <3>2. OpenCalls(s2, n) = OpenCalls(s, n)
      BY <1>1, <2>1
    <3> QED BY <1>1, <3>1, <3>2, OpenNext
  <2>3. /\ Depth(d) + 1 = Cardinality(OpenCalls(s, n))
        /\ Depth(d) + 1 # Null /\ Depth(Depth(d) + 1) = Depth(d) + 1
    BY <1>5, <1>6 DEF IndentsCount, Depth, n
  <2>4. ASSUME NEW i \in OpenCalls(s2, n + 1)
        PROVE  s2[i].indent + 1 = Cardinality(OpenCalls(s2, i))
    <3>1. CASE i = n + 1
      BY <1>1, <2>2, <2>3, <3>1
    <3>2. CASE i \in 1..n
      <4>1. s2[i] = s[i] /\ i \in Nat /\ i <= n
        BY <1>1, <3>2
      <4>2. i \in OpenCalls(s, n)
        BY <2>4, <3>2, <4>1 DEF OpenCalls
      <4>3. s[i].indent + 1 = Cardinality(OpenCalls(s, i))
        BY <4>2 DEF IndentsCount, n
      <4> QED BY <2>1, <4>1, <4>3
    <3> QED BY <1>2, <2>4, <3>1, <3>2 DEF OpenCalls
  <2>5. \A i \in 1..n + 1 : s2[i].phase # "after"
    BY <1>1, <1>2, <1>4 DEF Formats
  <2> QED BY <1>1, <1>6, <2>2, <2>3, <2>4, <2>5 DEF IndentsCount
<1>10. RecordIsAbove(s2, c, a, u)
  <2>1. \A i \in 1..n : s2[i].phase # "before" /\ s2[i].phase # "after"
    BY <1>1, <1>4 DEF Formats
  <2>2. call.elided /\ ~u => a = c
    <3>1. \A i \in 1..n : s[i].phase # "before"
      BY <1>4 DEF Formats
    <3>2. r # Null /\ ~u => a = r
      BY <3>1 DEF RecordIsAbove, n
    <3> QED BY <1>5, <3>2
  <2>3. s2[n + 1].phase = "before"
    BY <1>1
  <2>4. ASSUME NEW i \in 1..n + 1
        PROVE  /\ s2[i].phase = "before" =>
                    c = s2[i].class /\ (s2[i].elided /\ ~u => a = s2[i].class)
               /\ s2[i].phase # "after"
    <3>1. CASE i \in 1..n
      BY <2>1, <3>1
    <3>2. CASE i = n + 1
      <4>1. s2[i] = call
        BY <1>1, <3>2
      <4> QED BY <2>2, <4>1
    <3> QED BY <1>2, <3>1, <3>2
  <2> QED BY <1>1, <1>3, <2>3, <2>4 DEF RecordIsAbove
<1> QED BY <1>8, <1>9, <1>10 DEF s2

Replaced(s2, s, call) == s2 = [s EXCEPT ![Len(s)] = call]
GoesOn(call, top) == call = [top EXCEPT !.phase = "body"]

\* The entry line is logged or formatting it throws: the call goes on.
LEMMA BeforeDone ==
    ASSUME NEW s \in Seq(CallRecords), s # << >>, NEW ig, NEW d,
           OneFormats(s, ig), IndentsCount(s, d),
           NEW top, top = s[Len(s)], top.phase = "before",
           NEW call \in CallRecords, GoesOn(call, top), NEW s2, Replaced(s2, s, call)
    PROVE  /\ OneFormats(s2, FALSE) /\ IndentsCount(s2, d)
           /\ \A i \in 1..Len(s2) : ~Formats(s2[i])
<1> DEFINE n == Len(s)
<1>1. /\ n \in Nat /\ n >= 1 /\ s2 \in Seq(CallRecords) /\ Len(s2) = n /\ s2[n] = call
      /\ \A i \in 1..n : i < n => s2[i] = s[i]
  <2>1. s2 = [s EXCEPT ![Len(s)] = call]
    BY DEF Replaced
  <2> QED BY <2>1, SetTopFacts
<1>2. \A i \in 1..n : i < n \/ i = n
  BY <1>1
<1>3. n \in 1..n /\ s[n] \in CallRecords /\ s[n].phase = "before"
  BY <1>1
<1> HIDE DEF n
<1>4. /\ call.class = s[n].class /\ call.phase = "body" /\ call.patched = s[n].patched
      /\ call.indent = s[n].indent /\ call.exit = s[n].exit /\ call.elided = s[n].elided
  BY <1>3 DEF CallRecords, n, GoesOn
<1>5. ~Formats(call) /\ Formats(s[n])
  BY <1>3, <1>4 DEF Formats
<1>6. \A i \in 1..n : ~Formats(s2[i])
  <2>1. \A i \in 1..n : i < n => ~Formats(s[i])
    BY <1>3, <1>5 DEF OneFormats, n
  <2> QED BY <1>1, <1>2, <1>5, <2>1
<1>7. OneFormats(s2, FALSE)
  <2>1. ASSUME NEW i \in 1..n
        PROVE  /\ s2[i].indent # Null => s2[i].patched
               /\ s2[i].patched => s2[i].indent # Null
    <3>1. CASE i < n
      <4>1. s2[i] = s[i]
        BY <1>1, <3>1
      <4>2. ~ \E j \in 1..n : j < i /\ Formats(s[j])
        <5>1. ASSUME NEW j \in 1..n, j < i, Formats(s[j]) PROVE FALSE
          <6>1. j < n
            BY <1>1, <3>1, <5>1
          <6> QED BY <1>1, <1>6, <5>1, <6>1
        <5> QED BY <5>1
      <4> QED BY <4>1, <4>2 DEF OneFormats, n
    <3>2. CASE i = n
      <4>1. s[n].indent # Null /\ s[n].patched
        BY <1>3, <1>5 DEF OneFormats, n
      <4> QED BY <1>1, <1>4, <3>2, <4>1
    <3> QED BY <1>2, <3>1, <3>2
  <2> QED BY <1>1, <1>6, <2>1 DEF OneFormats
<1>8. IndentsCount(s2, d)
  <2>1. ASSUME NEW i \in 1..n
        PROVE  /\ s2[i].indent = s[i].indent /\ s2[i].patched = s[i].patched
               /\ s2[i].phase \in {"before", "body"} <=> s[i].phase \in {"before", "body"}
    <3>1. CASE i < n
      BY <1>1, <3>1
    <3>2. CASE i = n
      BY <1>1, <1>3, <1>4, <3>2
    <3> QED BY <1>2, <3>1, <3>2
  <2>2. ASSUME NEW k \in Nat, k <= n PROVE OpenCalls(s2, k) = OpenCalls(s, k)
    <3>1. \A i \in 1..k : i \in 1..n
      BY <1>1, <2>2
    <3> QED BY <2>1, <3>1 DEF OpenCalls
  <2>3. Depth(d) + 1 = Cardinality(OpenCalls(s2, n))
    <3>1. OpenCalls(s2, n) = OpenCalls(s, n)
      BY <1>1, <2>2
    <3> QED BY <3>1, Zenon DEF IndentsCount, n
  <2>4. ASSUME NEW i \in OpenCalls(s2, n)
        PROVE  s2[i].indent + 1 = Cardinality(OpenCalls(s2, i))
    <3>0. OpenCalls(s2, n) = OpenCalls(s, n) /\ OpenCalls(s, n) \subseteq 1..n
      BY <1>1, <2>2 DEF OpenCalls
    <3>1. i \in OpenCalls(s, n) /\ i \in 1..n /\ i \in Nat /\ i <= n
      BY <1>1, <2>4, <3>0
    <3>2. s[i].indent + 1 = Cardinality(OpenCalls(s, i))
      BY <3>1, Zenon DEF IndentsCount, n
    <3> QED BY <2>1, <2>2, <3>1, <3>2
  <2>5. d = Null => \A i \in 1..n : ~s2[i].patched
    BY <2>1 DEF IndentsCount, n
  <2>6. \A i \in 1..n : s2[i].phase # "after"
    BY <1>6 DEF Formats
  <2> QED BY <1>1, <2>3, <2>4, <2>5, <2>6 DEF IndentsCount
<1> QED BY <1>1, <1>6, <1>7, <1>8 DEF n

\* A call ends that is not open any more, or never was.
LEMMA PopCall ==
    ASSUME NEW s \in Seq(CallRecords), s # << >>, NEW ig \in BOOLEAN,
           NEW d \in Int \cup {Null}, NEW r, NEW a, NEW u,
           OneFormats(s, ig), IndentsCount(s, d), RecordIsAbove(s, r, a, u),
           (s[Len(s)].phase = "body" /\ s[Len(s)].indent = Null) \/ s[Len(s)].phase = "after"
    PROVE  LET s2 == Front(s)
           IN  /\ OneFormats(s2, IF s[Len(s)].phase = "after" THEN FALSE ELSE ig)
               /\ IndentsCount(s2, d)
               /\ RecordIsAbove(s2, r, a, u)
               /\ s[Len(s)].phase = "after" => RecordIsAbove(s2, r, Null, u)
<1> DEFINE s2 == Front(s)
<1> DEFINE n == Len(s) - 1
<1>1. /\ n \in Nat /\ Len(s) = n + 1 /\ s2 \in Seq(CallRecords) /\ Len(s2) = n
      /\ \A i \in 1..n : s2[i] = s[i]
  <2>1. Len(s) \in Nat /\ Len(s) >= 1
    OBVIOUS
  <2> QED BY <2>1, FrontFacts
<1> HIDE DEF s2, n
<1>2. \A i \in 1..n + 1 : i \in 1..n \/ i = n + 1
  BY <1>1
<1>3. /\ \A i \in 1..n : i \in 1..n + 1 /\ i < n + 1 /\ i \in Nat /\ i <= n
      /\ n + 1 \in 1..n + 1
  BY <1>1
<1>4. /\ Formats(s[n + 1]) <=> s[n + 1].phase = "after"
      /\ (s[n + 1].phase = "body" /\ s[n + 1].indent = Null) \/ s[n + 1].phase = "after"
  BY <1>1 DEF Formats
<1>5. /\ ig <=> \E i \in 1..n + 1 : Formats(s[i])
      /\ \A i, j \in 1..n + 1 :
           Formats(s[i]) /\ i < j => ~Formats(s[j]) /\ s[j].indent = Null
      /\ \A i \in 1..n + 1 :
           /\ Formats(s[i]) => s[i].indent # Null
           /\ s[i].indent # Null => s[i].patched
           /\ s[i].patched /\ s[i].indent = Null =>
                \E j \in 1..n + 1 : j < i /\ Formats(s[j])
  BY <1>1, Zenon DEF OneFormats
<1>6. OneFormats(s2, IF s[Len(s)].phase = "after" THEN FALSE ELSE ig)
  <2>1. (IF s[n + 1].phase = "after" THEN FALSE ELSE ig) <=> \E i \in 1..n : Formats(s2[i])
    <3>1. CASE s[n + 1].phase = "after"
      BY <1>1, <1>3, <1>4, <1>5, <3>1
    <3>2. CASE s[n + 1].phase # "after"
      BY <1>1, <1>2, <1>3, <1>4, <1>5, <3>2
    <3> QED BY <3>1, <3>2
  <2>2. ASSUME NEW i \in 1..n, NEW j \in 1..n, Formats(s2[i]), i < j
        PROVE  ~Formats(s2[j]) /\ s2[j].indent = Null
    BY <1>1, <1>3, <1>5, <2>2
  <2>3. ASSUME NEW i \in 1..n
        PROVE  /\ Formats(s2[i]) => s2[i].indent # Null
               /\ s2[i].indent # Null => s2[i].patched
               /\ s2[i].patched /\ s2[i].indent = Null =>
                    \E j \in 1..n : j < i /\ Formats(s2[j])
    <3>1. s2[i] = s[i] /\ i \in 1..n + 1
      BY <1>1, <1>3
    <3>2. ASSUME NEW j \in 1..n + 1, j < i, Formats(s[j])
          PROVE  j \in 1..n /\ Formats(s2[j])
      BY <1>1, <3>2
    <3>3. /\ Formats(s[i]) => s[i].indent # Null
          /\ s[i].indent # Null => s[i].patched
          /\ s[i].patched /\ s[i].indent = Null =>
               \E j \in 1..n + 1 : j < i /\ Formats(s[j])
      BY <1>5, <3>1
    <3> QED BY <3>1, <3>2, <3>3
  <2> QED BY <1>1, <2>1, <2>2, <2>3 DEF OneFormats
<1>7. IndentsCount(s2, d)
  <2>1. ASSUME NEW k \in Nat, k <= n PROVE OpenCalls(s2, k) = OpenCalls(s, k)
    <3>1. \A i \in 1..k : s2[i] = s[i]
      BY <1>1, <2>1
    <3> QED BY <3>1 DEF OpenCalls
  <2>2. OpenCalls(s2, n) = OpenCalls(s, n + 1)
    <3>1. n + 1 \notin OpenCalls(s, n + 1)
      BY <1>4 DEF OpenCalls
    <3> QED BY <1>1, <2>1, <3>1, OpenNext
  <2>3. Depth(d) + 1 = Cardinality(OpenCalls(s2, n))
    BY <1>1, <2>2 DEF IndentsCount
  <2>4. ASSUME NEW i \in OpenCalls(s2, n)
        PROVE  s2[i].indent + 1 = Cardinality(OpenCalls(s2, i))
    <3>1. i \in OpenCalls(s, n + 1) /\ i \in 1..n
      BY <2>2, <2>4 DEF OpenCalls
    <3>2. s[i].indent + 1 = Cardinality(OpenCalls(s, i))
      BY <1>1, <3>1 DEF IndentsCount
    <3> QED BY <1>1, <1>3, <2>1, <3>1, <3>2
  <2>5. d = Null => \A i \in 1..n : ~s2[i].patched
    BY <1>1, <1>3 DEF IndentsCount
  <2>6. \A i \in 1..n : s2[i].phase = "after" => s2[i].exit = s2[i].indent
    BY <1>1, <1>3 DEF IndentsCount
  <2> QED BY <1>1, <2>3, <2>4, <2>5, <2>6 DEF IndentsCount
<1>8. /\ s[n + 1].phase = "after" => r = Null
      /\ s[n + 1].phase # "before"
  BY <1>1, <1>3, <1>4 DEF RecordIsAbove
<1>9. ASSUME NEW line, line = a \/ s[n + 1].phase = "after" PROVE RecordIsAbove(s2, r, line, u)
  <2>1. r # Null /\ ~u /\ (\A i \in 1..n : s2[i].phase # "before") => line = r
    <3> SUFFICES ASSUME r # Null, ~u, \A i \in 1..n : s2[i].phase # "before" PROVE line = r
      OBVIOUS
    <3>1. \A i \in 1..n + 1 : s[i].phase # "before"
      BY <1>1, <1>2, <1>8
    <3>2. a = r
      BY <1>1, <3>1 DEF RecordIsAbove
    <3> QED BY <1>8, <1>9, <3>2
  <2>2. ASSUME NEW i \in 1..n
        PROVE  /\ s2[i].phase = "before" =>
                    r = s2[i].class /\ (s2[i].elided /\ ~u => line = s2[i].class)
               /\ s2[i].phase = "after" => r = Null
    <3>1. s2[i] = s[i] /\ i \in 1..n + 1 /\ i < n + 1
      BY <1>1, <1>3
    <3>2. /\ s[i].phase = "before" =>
               r = s[i].class /\ (s[i].elided /\ ~u => a = s[i].class)
          /\ s[i].phase = "after" => r = Null
      BY <1>1, <3>1, Zenon DEF RecordIsAbove
    <3>3. s[n + 1].phase = "after" => s[i].phase # "before"
      BY <1>3, <1>4, <1>5, <3>1 DEF Formats
    <3> QED BY <1>9, <3>1, <3>2, <3>3
  <2> QED BY <1>1, <2>1, <2>2 DEF RecordIsAbove
<1> QED BY <1>1, <1>6, <1>7, <1>9 DEF s2

\* afterExecuted of a logged call: it is the innermost open one, so that its exit
\* line is indented like its entry line.
LEMMA LeaveLogged ==
    ASSUME NEW s \in Seq(CallRecords), s # << >>, NEW d \in Int \cup {Null}, d # Null,
           NEW a, NEW r, NEW u,
           OneFormats(s, FALSE), IndentsCount(s, d), RecordIsAbove(s, r, a, u),
           s[Len(s)].phase = "body", s[Len(s)].patched,
           NEW call \in CallRecords, call = [s[Len(s)] EXCEPT !.phase = "after", !.exit = d]
    PROVE  LET s2 == [s EXCEPT ![Len(s)] = call]
           IN  /\ OneFormats(s2, TRUE) /\ IndentsCount(s2, d - 1)
               /\ RecordIsAbove(s2, Null, a, FALSE)
<1> DEFINE s2 == [s EXCEPT ![Len(s)] = call]
<1> DEFINE n == Len(s) - 1
<1>1. /\ n \in Nat /\ Len(s) = n + 1 /\ s2 \in Seq(CallRecords) /\ Len(s2) = n + 1
      /\ s2[n + 1] = call /\ \A i \in 1..n : s2[i] = s[i]
  <2>1. Len(s) \in Nat /\ Len(s) >= 1
    OBVIOUS
  <2>2. /\ s2 \in Seq(CallRecords) /\ Len(s2) = Len(s) /\ s2[Len(s)] = call
        /\ \A i \in 1..Len(s) : i < Len(s) => s2[i] = s[i]
    <3> DEFINE Set(f) == [s EXCEPT ![Len(s)] = f]
    <3>1. \A f \in CallRecords :
             /\ Set(f) \in Seq(CallRecords) /\ Len(Set(f)) = Len(s) /\ Set(f)[Len(s)] = f
             /\ \A i \in 1..Len(s) : i < Len(s) => Set(f)[i] = s[i]
      BY ONLY s \in Seq(CallRecords), s # << >>, SetTopFacts
    <3> QED BY <3>1, Zenon
  <2>3. n \in Nat /\ Len(s) = n + 1 /\ \A i \in 1..n : i \in 1..Len(s) /\ i < Len(s)
    BY <2>1
  <2> QED BY <2>2, <2>3
<1>2. \A i \in 1..n + 1 : i \in 1..n \/ i = n + 1
  BY <1>1
<1>3. /\ \A i \in 1..n : i \in 1..n + 1 /\ i < n + 1 /\ i \in Nat /\ i <= n
      /\ n + 1 \in 1..n + 1
  BY <1>1
<1>4. /\ s[n + 1] \in CallRecords /\ s[n + 1].phase = "body" /\ s[n + 1].patched
      /\ call = [s[n + 1] EXCEPT !.phase = "after", !.exit = d]
  BY <1>1, <1>3
<1> HIDE DEF s2, n
<1>5. \A i \in 1..n + 1 : ~Formats(s[i])
  BY <1>1 DEF OneFormats
<1>6. \A i \in 1..n + 1 : s[i].indent # Null <=> s[i].patched
  BY <1>1, <1>5 DEF OneFormats
<1>7. /\ call.phase = "after" /\ call.exit = d /\ call.indent = s[n + 1].indent
      /\ call.patched = s[n + 1].patched /\ call.indent # Null /\ Formats(call)
  BY <1>3, <1>4, <1>6, ZenonT(40) DEF CallRecords, Formats
<1>8. OneFormats(s2, TRUE)
  <2>1. \E i \in 1..n + 1 : Formats(s2[i])
    BY <1>1, <1>3, <1>7
  <2>2. ASSUME NEW i \in 1..n + 1, NEW j \in 1..n + 1, Formats(s2[i]), i < j PROVE FALSE
    <3>1. i \in 1..n
      BY <1>1, <1>2, <2>2
    <3> QED BY <1>1, <1>3, <1>5, <2>2, <3>1
  <2>3. \A i \in 1..n + 1 : s2[i].indent # Null <=> s2[i].patched
    BY <1>1, <1>2, <1>3, <1>4, <1>6, <1>7
  <2>4. ASSUME NEW i \in 1..n + 1, Formats(s2[i]) PROVE s2[i].indent # Null
    BY <1>1, <1>2, <1>3, <1>5, <1>7, <2>4
  <2> QED BY <1>1, <2>1, <2>2, <2>3, <2>4 DEF OneFormats
<1>9. IndentsCount(s2, d - 1)
  <2>1. ASSUME NEW k \in Nat, k <= n PROVE OpenCalls(s2, k) = OpenCalls(s, k)
    <3>1. \A i \in 1..k : s2[i] = s[i]
      BY <1>1, <2>1
    <3> QED BY <3>1 DEF OpenCalls
  <2>2. n + 1 \in OpenCalls(s, n + 1) /\ n + 1 \notin OpenCalls(s2, n + 1)
    BY <1>1, <1>3, <1>4, <1>6, <1>7 DEF OpenCalls
  <2>3. /\ Cardinality(OpenCalls(s, n + 1)) = Cardinality(OpenCalls(s, n)) + 1
        /\ OpenCalls(s2, n + 1) = OpenCalls(s, n)
        /\ Cardinality(OpenCalls(s, n)) \in Nat
    BY <1>1, <2>1, <2>2, OpenNext, OpenFinite
  <2>4. d \in Int /\ d - 1 # Null /\ Depth(d) = d /\ Depth(d - 1) = d - 1
    BY LogcatAssumption DEF Depth
  <2>5. /\ d + 1 = Cardinality(OpenCalls(s, n + 1))
        /\ s[n + 1].indent + 1 = Cardinality(OpenCalls(s, n + 1))
    BY <1>1, <2>2, <2>4 DEF IndentsCount
  <2>6. Depth(d - 1) + 1 = Cardinality(OpenCalls(s2, n + 1))
    BY <2>3, <2>4, <2>5
  <2>7. ASSUME NEW i \in OpenCalls(s2, n + 1)
        PROVE  s2[i].indent + 1 = Cardinality(OpenCalls(s2, i))
    <3>1. i \in 1..n
      BY <1>2, <2>2, <2>7 DEF OpenCalls
    <3>2. i \in OpenCalls(s, n + 1)
      BY <1>3, <2>3, <2>7, <3>1 DEF OpenCalls
    <3>3. s[i].indent + 1 = Cardinality(OpenCalls(s, i))
      BY <1>1, <3>2 DEF IndentsCount
    <3> QED BY <1>1, <1>3, <2>1, <3>1, <3>3
  <2>8. call.exit = call.indent
    <3>1. s[n + 1].indent \in Nat
      BY <1>4, <1>7 DEF CallRecords
    <3> QED BY <1>7, <2>4, <2>5, <3>1
  <2>9. \A i \in 1..n + 1 : s2[i].phase = "after" => s2[i].exit = s2[i].indent
    BY <1>1, <1>2, <1>3, <1>5, <2>8 DEF Formats
  <2> QED BY <1>1, <2>4, <2>6, <2>7, <2>9 DEF IndentsCount
<1>10. RecordIsAbove(s2, Null, a, FALSE)
  <2>1. \A i \in 1..n + 1 : s2[i].phase # "before"
    BY <1>1, <1>2, <1>3, <1>5, <1>7 DEF Formats
  <2> QED BY <1>1, <2>1 DEF RecordIsAbove
<1> QED BY <1>8, <1>9, <1>10 DEF s2

-----------------------------------------------------------------------------
(* LogInv is inductive *)

\* The initial state satisfies the invariant.
LEMMA LogInit == Init => LogInv
<1> SUFFICES ASSUME Init PROVE LogInv
  OBVIOUS
<1>1. LogTypeOK
  <2>1. << >> \in Seq(CallRecords)
    OBVIOUS
  <2>2. ignores \in [Threads -> BOOLEAN] /\ unshown \in [Threads -> BOOLEAN]
    BY DEF Init
  <2> QED BY <2>1, <2>2 DEF Init, LogTypeOK
<1>2. ASSUME NEW t \in Threads
      PROVE  /\ OneFormats(stack[t], ignores[t])
             /\ IndentsCount(stack[t], depths[t])
             /\ RecordIsAbove(stack[t], records[t], above[t], unshown[t])
  <2>1. /\ stack[t] = << >> /\ depths[t] = Null /\ records[t] = Null
        /\ Len(stack[t]) = 0 /\ 1..Len(stack[t]) = {}
    BY DEF Init
  <2>2. ignores[t] = FALSE
    BY DEF Init
  <2>3. OpenCalls(stack[t], Len(stack[t])) = {}
    BY <2>1 DEF OpenCalls
  <2>4. IndentsCount(stack[t], depths[t])
    <3>1. Cardinality(OpenCalls(stack[t], Len(stack[t]))) = 0
      BY <2>3, FS_EmptySet
    <3>2. Depth(depths[t]) + 1 = 0
      BY <2>1 DEF Depth
    <3> QED BY <2>1, <2>3, <3>1, <3>2, Zenon DEF IndentsCount
  <2>5. OneFormats(stack[t], ignores[t])
    BY <2>1, <2>2, Zenon DEF OneFormats
  <2>6. RecordIsAbove(stack[t], records[t], above[t], unshown[t])
    BY <2>1, Zenon DEF RecordIsAbove
  <2> QED BY <2>4, <2>5, <2>6
<1> QED BY <1>1, <1>2 DEF LogInv

\* The thread-locals and the calls of the other threads stay as they are.
OnlyThread(t) ==
    \A o \in Threads : o # t =>
        /\ stack'[o] = stack[o] /\ ignores'[o] = ignores[o] /\ depths'[o] = depths[o]
        /\ records'[o] = records[o] /\ above'[o] = above[o] /\ unshown'[o] = unshown[o]

\* A step of one thread keeps the invariant if it keeps what is said of it.
LEMMA ThreadStep ==
    ASSUME LogInv, NEW t \in Threads, LogTypeOK', OnlyThread(t),
           OneFormats(stack'[t], ignores'[t]), IndentsCount(stack'[t], depths'[t]),
           RecordIsAbove(stack'[t], records'[t], above'[t], unshown'[t])
    PROVE  LogInv'
<1>1. ASSUME NEW o \in Threads
      PROVE  /\ OneFormats(stack'[o], ignores'[o])
             /\ IndentsCount(stack'[o], depths'[o])
             /\ RecordIsAbove(stack'[o], records'[o], above'[o], unshown'[o])
  <2>1. CASE o = t
    BY <2>1
  <2>2. CASE o # t
    <3>1. /\ stack'[o] = stack[o] /\ ignores'[o] = ignores[o] /\ depths'[o] = depths[o]
          /\ records'[o] = records[o] /\ above'[o] = above[o] /\ unshown'[o] = unshown[o]
      BY <2>2 DEF OnlyThread
    <3>2. /\ OneFormats(stack[o], ignores[o])
          /\ IndentsCount(stack[o], depths[o])
          /\ RecordIsAbove(stack[o], records[o], above[o], unshown[o])
      BY Zenon DEF LogInv
    <3> QED BY <3>1, <3>2, Zenon
  <2> QED BY <2>1, <2>2
<1> QED BY <1>1, Zenon DEF LogInv

\* What is known of a thread.
LEMMA ThreadFacts ==
    ASSUME LogInv, NEW t \in Threads
    PROVE  /\ stack \in [Threads -> Seq(CallRecords)] /\ stack[t] \in Seq(CallRecords)
           /\ ignores \in [Threads -> BOOLEAN] /\ ignores[t] \in BOOLEAN
           /\ unshown \in [Threads -> BOOLEAN] /\ unshown[t] \in BOOLEAN
           /\ depths \in [Threads -> Int \cup {Null}] /\ depths[t] \in Int \cup {Null}
           /\ records \in [Threads -> Classes \cup {Null}] /\ records[t] \in Classes \cup {Null}
           /\ above \in [Threads -> Classes \cup {Null}]
           /\ traced \in SUBSET Classes
           /\ OneFormats(stack[t], ignores[t])
           /\ IndentsCount(stack[t], depths[t])
           /\ RecordIsAbove(stack[t], records[t], above[t], unshown[t])
<1>1. LogTypeOK
  BY DEF LogInv
<1>2. /\ ignores \in [Threads -> BOOLEAN] /\ ignores[t] \in BOOLEAN
      /\ unshown \in [Threads -> BOOLEAN] /\ unshown[t] \in BOOLEAN
  BY <1>1 DEF LogTypeOK
<1>3. /\ OneFormats(stack[t], ignores[t])
      /\ IndentsCount(stack[t], depths[t])
      /\ RecordIsAbove(stack[t], records[t], above[t], unshown[t])
  BY Zenon DEF LogInv
<1> QED BY <1>1, <1>2, <1>3 DEF LogTypeOK

\* A call that is not logged is pushed.
LEMMA UnloggedStep ==
    ASSUME LogInv, NEW t \in Threads, NEW call \in CallRecords,
           call.phase = "body", call.indent = Null, call.patched => ignores[t],
           Push(t, call), UNCHANGED <<traced, ignores, depths, records, above, unshown>>
    PROVE  LogInv'
<1>1. /\ stack \in [Threads -> Seq(CallRecords)] /\ stack[t] \in Seq(CallRecords)
      /\ ignores[t] \in BOOLEAN /\ depths[t] \in Int \cup {Null}
      /\ OneFormats(stack[t], ignores[t])
      /\ IndentsCount(stack[t], depths[t])
      /\ RecordIsAbove(stack[t], records[t], above[t], unshown[t])
  BY ThreadFacts
<1>2. /\ stack'[t] = Append(stack[t], call) /\ \A o \in Threads : o # t => stack'[o] = stack[o]
      /\ stack' \in [Threads -> Seq(CallRecords)]
  BY <1>1, PushFacts DEF Push
<1>3. LogTypeOK'
  BY <1>2 DEF LogInv, LogTypeOK
<1>4. OnlyThread(t)
  BY <1>2 DEF OnlyThread
<1>5. /\ OneFormats(stack'[t], ignores[t])
      /\ IndentsCount(stack'[t], depths[t])
      /\ RecordIsAbove(stack'[t], records[t], above[t], unshown[t])
  BY <1>1, <1>2, PushUnlogged
<1> QED BY <1>3, <1>4, <1>5, ThreadStep

\* A logged call begins.
LEMMA LoggedStep ==
    ASSUME LogInv, NEW t \in Threads, NEW c \in Classes, CallLogged(t, c)
    PROVE  LogInv'
<1>1. /\ stack \in [Threads -> Seq(CallRecords)] /\ stack[t] \in Seq(CallRecords)
      /\ ignores \in [Threads -> BOOLEAN] /\ ignores[t] \in BOOLEAN
      /\ unshown \in [Threads -> BOOLEAN] /\ unshown[t] \in BOOLEAN
      /\ depths \in [Threads -> Int \cup {Null}] /\ depths[t] \in Int \cup {Null}
      /\ records \in [Threads -> Classes \cup {Null}] /\ records[t] \in Classes \cup {Null}
      /\ above \in [Threads -> Classes \cup {Null}] /\ traced \in SUBSET Classes
      /\ OneFormats(stack[t], ignores[t])
      /\ IndentsCount(stack[t], depths[t])
      /\ RecordIsAbove(stack[t], records[t], above[t], unshown[t])
  BY ThreadFacts
<1>2. PICK d : d = Depth(depths[t]) + 1
  OBVIOUS
<1>3. d \in Nat
  <2>1. Len(stack[t]) \in Nat
    BY <1>1
  <2>2. d = Cardinality(OpenCalls(stack[t], Len(stack[t])))
    BY <1>1, <1>2 DEF IndentsCount
  <2> QED BY <2>1, <2>2, OpenFinite
<1>4. PICK e \in BOOLEAN : e = (records[t] = c)
  OBVIOUS
<1>5. PICK call \in CallRecords : call = NewCall(c, "before", TRUE, d, e)
  BY <1>3 DEF NewCall, CallRecords
<1>6. /\ stack' = [stack EXCEPT ![t] = Append(stack[t], call)]
      /\ depths' = [depths EXCEPT ![t] = d]
      /\ records' = [records EXCEPT ![t] = c]
      /\ ignores' = [ignores EXCEPT ![t] = TRUE]
      /\ traced' = traced /\ above' = above /\ unshown' = unshown
      /\ ~ignores[t]
  BY <1>2, <1>4, <1>5 DEF CallLogged, Push, Depth
<1>7. LogTypeOK'
  <2>1. stack' \in [Threads -> Seq(CallRecords)]
    BY <1>1, <1>6, PushFacts
  <2>2. ignores' \in [Threads -> BOOLEAN]
    BY <1>1, <1>6
  <2> QED BY <1>1, <1>3, <1>6, <2>1, <2>2 DEF LogTypeOK
<1>8. OnlyThread(t)
  BY <1>1, <1>6 DEF OnlyThread
<1>9. OneFormats(stack[t], FALSE)
  <2>1. ignores[t] = FALSE
    BY <1>1, <1>6
  <2> QED BY <1>1, <2>1
<1>10. /\ stack'[t] = Append(stack[t], call) /\ depths'[t] = d /\ records'[t] = c
       /\ above'[t] = above[t] /\ unshown'[t] = unshown[t]
  BY <1>1, <1>6
<1>11. ignores'[t] = TRUE
  BY <1>1, <1>6
<1>12. /\ OneFormats(stack'[t], TRUE) /\ IndentsCount(stack'[t], d)
       /\ RecordIsAbove(stack'[t], c, above[t], unshown[t])
  <2>1. /\ call.phase = "before" /\ call.patched /\ call.indent = Depth(depths[t]) + 1
        /\ call.class = c /\ call.elided = e
    BY <1>2, <1>5 DEF NewCall
  <2>2. call.elided <=> records[t] = c
    BY <1>4, <2>1
  <2>3. /\ OneFormats(Append(stack[t], call), TRUE)
        /\ IndentsCount(Append(stack[t], call), Depth(depths[t]) + 1)
        /\ RecordIsAbove(Append(stack[t], call), c, above[t], unshown[t])
    BY <1>1, <1>9, <2>1, <2>2, PushLogged, Zenon
  <2> QED BY <1>2, <1>10, <2>3
<1> QED BY <1>7, <1>8, <1>10, <1>11, <1>12, ThreadStep

\* A thread in a phase has a last call of that phase.
LEMMA TopOfStack ==
    ASSUME LogInv, NEW t \in Threads, NEW phase, At(t, phase)
    PROVE  /\ stack[t] # << >> /\ stack[t][Len(stack[t])] \in CallRecords
           /\ Top(t) = stack[t][Len(stack[t])] /\ Top(t) \in CallRecords
           /\ Top(t).phase = phase
<1>1. stack[t] \in Seq(CallRecords)
  BY ThreadFacts
<1>2. stack[t] # << >> /\ Top(t).phase = phase /\ Top(t) = stack[t][Len(stack[t])]
  BY DEF At, Top
<1> QED BY <1>1, <1>2

\* The entry line is logged, or formatting it throws.
LEMMA BeforeStep ==
    ASSUME LogInv, NEW t \in Threads, BeforeEnds(t) \/ BeforeThrows(t)
    PROVE  LogInv'
<1>1. /\ stack \in [Threads -> Seq(CallRecords)] /\ stack[t] \in Seq(CallRecords)
      /\ ignores \in [Threads -> BOOLEAN] /\ ignores[t] \in BOOLEAN
      /\ unshown \in [Threads -> BOOLEAN] /\ unshown[t] \in BOOLEAN
      /\ depths \in [Threads -> Int \cup {Null}] /\ depths[t] \in Int \cup {Null}
      /\ records \in [Threads -> Classes \cup {Null}]
      /\ above \in [Threads -> Classes \cup {Null}] /\ traced \in SUBSET Classes
      /\ OneFormats(stack[t], ignores[t])
      /\ IndentsCount(stack[t], depths[t])
      /\ RecordIsAbove(stack[t], records[t], above[t], unshown[t])
  BY ThreadFacts
<1>2. At(t, "before")
  BY DEF BeforeEnds, BeforeThrows
<1>3. PICK top \in CallRecords : /\ top = Top(t) /\ top = stack[t][Len(stack[t])]
                                 /\ stack[t] # << >> /\ top.phase = "before"
  BY <1>2, TopOfStack
<1>4. PICK call \in CallRecords : call = [top EXCEPT !.phase = "body"]
  BY DEF CallRecords
<1>5. PICK s2 : s2 = [stack[t] EXCEPT ![Len(stack[t])] = call]
  OBVIOUS
<1>6. /\ stack' = [stack EXCEPT ![t] = s2]
      /\ ignores' = [ignores EXCEPT ![t] = FALSE]
      /\ traced' = traced /\ depths' = depths /\ records' = records
  BY <1>1, <1>3, <1>4, <1>5 DEF BeforeEnds, BeforeThrows, SetTop
<1>7. s2 \in Seq(CallRecords)
  BY <1>1, <1>3, <1>5, SetTopFacts
<1>8. ASSUME NEW line, NEW hidden,
             hidden \/ line = top.class \/ (line = above[t] /\ top.elided /\ ~unshown[t])
      PROVE  /\ OneFormats(s2, FALSE) /\ IndentsCount(s2, depths[t])
             /\ RecordIsAbove(s2, records[t], line, hidden)
  <2>1. /\ OneFormats(s2, FALSE) /\ IndentsCount(s2, depths[t])
        /\ \A i \in 1..Len(s2) : ~Formats(s2[i])
    <3>1. Replaced(s2, stack[t], call) /\ GoesOn(call, top)
      BY <1>4, <1>5 DEF Replaced, GoesOn
    <3> QED BY <1>1, <1>3, <3>1, BeforeDone
  <2>2. \A i \in 1..Len(s2) : s2[i].phase # "before" /\ s2[i].phase # "after"
    BY <2>1 DEF Formats
  <2>3. records[t] = top.class /\ (top.elided /\ ~unshown[t] => above[t] = top.class)
    <3>1. Len(stack[t]) \in 1..Len(stack[t])
      BY <1>1, <1>3
    <3> QED BY <1>1, <1>3, <3>1, Zenon DEF RecordIsAbove
  <2> QED BY <1>8, <2>1, <2>2, <2>3 DEF RecordIsAbove
<1>9. /\ stack'[t] = s2 /\ depths'[t] = depths[t] /\ records'[t] = records[t]
  BY <1>1, <1>6
<1>10. ignores'[t] = FALSE /\ ignores' \in [Threads -> BOOLEAN]
  BY <1>1, <1>6
<1>11. top.class \in Classes /\ top.elided \in BOOLEAN
  BY DEF CallRecords
<1>12. CASE BeforeEnds(t)
  <2>1. /\ above' = [above EXCEPT ![t] = top.class]
        /\ unshown' = [unshown EXCEPT ![t] = unshown[t] /\ top.elided]
    BY <1>3, <1>12 DEF BeforeEnds
  <2>2. unshown' \in [Threads -> BOOLEAN] /\ unshown'[t] \in BOOLEAN
    BY <1>1, <1>11, <2>1
  <2>3. LogTypeOK'
    BY <1>1, <1>6, <1>7, <1>10, <1>11, <2>1, <2>2 DEF LogTypeOK
  <2>4. OnlyThread(t)
    BY <1>1, <1>6, <2>1 DEF OnlyThread
  <2>5. above'[t] = top.class
    BY <1>1, <2>1
  <2>6. RecordIsAbove(stack'[t], records'[t], above'[t], unshown'[t])
    BY <1>8, <1>9, <2>5
  <2> QED BY <1>8, <1>9, <1>10, <2>3, <2>4, <2>5, <2>6, ThreadStep
<1>13. CASE BeforeThrows(t)
  <2>1. above' = above /\ unshown' = [unshown EXCEPT ![t] = unshown[t] \/ ~top.elided]
    BY <1>3, <1>13 DEF BeforeThrows
  <2>2. /\ unshown' \in [Threads -> BOOLEAN]
        /\ unshown'[t] <=> unshown[t] \/ ~top.elided
    BY <1>1, <1>11, <2>1
  <2>3. LogTypeOK'
    BY <1>1, <1>6, <1>7, <1>10, <2>1, <2>2 DEF LogTypeOK
  <2>4. OnlyThread(t)
    BY <1>1, <1>6, <2>1 DEF OnlyThread
  <2>5. unshown'[t] \/ (above'[t] = above[t] /\ top.elided /\ ~unshown[t])
    BY <2>1, <2>2
  <2>6. /\ OneFormats(stack'[t], FALSE) /\ IndentsCount(stack'[t], depths[t])
        /\ RecordIsAbove(stack'[t], records'[t], above'[t], unshown'[t])
    BY <1>8, <1>9, <2>5
  <2> QED BY <1>9, <1>10, <2>3, <2>4, <2>6, ThreadStep
<1> QED BY <1>12, <1>13

\* afterExecuted of a logged call begins.
LEMMA ReturnStep ==
    ASSUME LogInv, NEW t \in Threads, ReturnLogged(t)
    PROVE  LogInv'
<1>1. /\ stack \in [Threads -> Seq(CallRecords)] /\ stack[t] \in Seq(CallRecords)
      /\ ignores \in [Threads -> BOOLEAN] /\ ignores[t] \in BOOLEAN
      /\ unshown \in [Threads -> BOOLEAN] /\ unshown[t] \in BOOLEAN
      /\ depths \in [Threads -> Int \cup {Null}] /\ depths[t] \in Int \cup {Null}
      /\ records \in [Threads -> Classes \cup {Null}]
      /\ above \in [Threads -> Classes \cup {Null}] /\ traced \in SUBSET Classes
      /\ OneFormats(stack[t], ignores[t])
      /\ IndentsCount(stack[t], depths[t])
      /\ RecordIsAbove(stack[t], records[t], above[t], unshown[t])
  BY ThreadFacts
<1>2. At(t, "body") /\ Top(t).patched /\ ~ignores[t] /\ depths[t] # Null
  BY DEF ReturnLogged, Leave
<1>3. PICK top \in CallRecords : /\ top = Top(t) /\ top = stack[t][Len(stack[t])]
                                 /\ stack[t] # << >> /\ top.phase = "body" /\ top.patched
  BY <1>2, TopOfStack
<1>4. PICK call \in CallRecords : call = [top EXCEPT !.phase = "after", !.exit = depths[t]]
  BY <1>1 DEF CallRecords
<1>5. PICK s2 : s2 = [stack[t] EXCEPT ![Len(stack[t])] = call]
  OBVIOUS
<1>6. /\ stack' = [stack EXCEPT ![t] = s2]
      /\ ignores' = [ignores EXCEPT ![t] = TRUE]
      /\ depths' = [depths EXCEPT ![t] = depths[t] - 1]
      /\ unshown' = [unshown EXCEPT ![t] = FALSE]
      /\ records' = [records EXCEPT ![t] = Null]
      /\ traced' = traced /\ above' = above
  BY <1>1, <1>3, <1>4, <1>5 DEF ReturnLogged, Leave, SetTop
<1>7. s2 \in Seq(CallRecords)
  BY <1>1, <1>3, <1>5, SetTopFacts
<1>8. OneFormats(stack[t], FALSE)
  <2>1. ignores[t] = FALSE
    BY <1>1, <1>2
  <2> QED BY <1>1, <2>1
<1>9. /\ OneFormats(s2, TRUE) /\ IndentsCount(s2, depths[t] - 1)
      /\ RecordIsAbove(s2, Null, above[t], FALSE)
  BY <1>1, <1>2, <1>3, <1>4, <1>5, <1>8, LeaveLogged, Zenon
<1>10. /\ stack'[t] = s2 /\ depths'[t] = depths[t] - 1 /\ records'[t] = Null /\ above'[t] = above[t]
  BY <1>1, <1>6
<1>11. /\ ignores'[t] = TRUE /\ ignores' \in [Threads -> BOOLEAN]
       /\ unshown'[t] = FALSE /\ unshown' \in [Threads -> BOOLEAN]
  BY <1>1, <1>6
<1>12. LogTypeOK'
  <2>1. depths[t] - 1 \in Int
    BY <1>1, <1>2
  <2> QED BY <1>1, <1>6, <1>7, <1>11, <2>1 DEF LogTypeOK
<1>13. OnlyThread(t)
  BY <1>1, <1>6 DEF OnlyThread
<1> QED BY <1>9, <1>10, <1>11, <1>12, <1>13, ThreadStep

\* A call is popped: it was not logged, or its exit line is logged or given up.
LEMMA PopStep ==
    ASSUME LogInv, NEW t \in Threads,
           ReturnUntraced(t) \/ ReturnIgnored(t) \/ AfterEnds(t) \/ AfterThrows(t)
    PROVE  LogInv'
<1>1. /\ stack \in [Threads -> Seq(CallRecords)] /\ stack[t] \in Seq(CallRecords)
      /\ ignores \in [Threads -> BOOLEAN] /\ ignores[t] \in BOOLEAN
      /\ unshown \in [Threads -> BOOLEAN] /\ unshown[t] \in BOOLEAN
      /\ depths \in [Threads -> Int \cup {Null}] /\ depths[t] \in Int \cup {Null}
      /\ records \in [Threads -> Classes \cup {Null}]
      /\ above \in [Threads -> Classes \cup {Null}] /\ traced \in SUBSET Classes
      /\ OneFormats(stack[t], ignores[t])
      /\ IndentsCount(stack[t], depths[t])
      /\ RecordIsAbove(stack[t], records[t], above[t], unshown[t])
  BY ThreadFacts
<1>2. At(t, "body") \/ At(t, "after")
  BY DEF ReturnUntraced, ReturnIgnored, AfterEnds, AfterThrows
<1>3. /\ stack[t] # << >> /\ Top(t) = stack[t][Len(stack[t])]
      /\ Top(t) \in CallRecords
  BY <1>2, TopOfStack
<1>4. PICK s2 : s2 = Front(stack[t])
  OBVIOUS
<1>5. s2 \in Seq(CallRecords) /\ Len(stack[t]) \in 1..Len(stack[t])
  BY <1>1, <1>3, <1>4, FrontFacts
<1>6. /\ stack' = [stack EXCEPT ![t] = s2]
      /\ traced' = traced /\ depths' = depths /\ records' = records /\ unshown' = unshown
  BY <1>1, <1>4 DEF ReturnUntraced, ReturnIgnored, AfterEnds, AfterThrows, Pop, Front
<1>7. /\ stack'[t] = s2 /\ stack' \in [Threads -> Seq(CallRecords)]
      /\ \A o \in Threads : o # t => stack'[o] = stack[o]
  BY <1>1, <1>5, <1>6
<1>8. CASE ReturnUntraced(t) \/ ReturnIgnored(t)
  <2>1. Top(t).phase = "body" /\ ignores' = ignores /\ above' = above
    BY <1>8 DEF ReturnUntraced, ReturnIgnored, At
  <2>2. Top(t).indent = Null
    <3>1. CASE ReturnUntraced(t)
      <4>1. ~Top(t).patched
        BY <3>1 DEF ReturnUntraced
      <4> QED BY <1>1, <1>3, <1>5, <4>1 DEF OneFormats
    <3>2. CASE ReturnIgnored(t)
      <4>1. ignores[t]
        BY <3>2 DEF ReturnIgnored
      <4>2. PICK i \in 1..Len(stack[t]) : Formats(stack[t][i])
        BY <1>1, <4>1 DEF OneFormats
      <4>3. i # Len(stack[t])
        BY <1>3, <2>1, <4>2 DEF Formats
      <4>4. i < Len(stack[t])
        BY <1>1, <4>3
      <4> QED BY <1>1, <1>3, <1>5, <4>2, <4>4 DEF OneFormats
    <3> QED BY <1>8, <3>1, <3>2
  <2>3. /\ OneFormats(s2, ignores[t]) /\ IndentsCount(s2, depths[t])
        /\ RecordIsAbove(s2, records[t], above[t], unshown[t])
    BY <1>1, <1>3, <1>4, <2>1, <2>2, PopCall
  <2>4. LogTypeOK' /\ OnlyThread(t)
    BY <1>1, <1>6, <1>7, <2>1 DEF LogTypeOK, OnlyThread
  <2> QED BY <1>6, <1>7, <2>1, <2>3, <2>4, ThreadStep
<1>9. CASE AfterEnds(t) \/ AfterThrows(t)
  <2>1. Top(t).phase = "after" /\ ignores' = [ignores EXCEPT ![t] = FALSE]
    BY <1>9 DEF AfterEnds, AfterThrows, At
  <2>2. ignores' \in [Threads -> BOOLEAN] /\ ignores'[t] = FALSE
    BY <1>1, <2>1
  <2>3. above' = above \/ above' = [above EXCEPT ![t] = Null]
    BY <1>9 DEF AfterEnds, AfterThrows
  <2>4. /\ above' \in [Threads -> Classes \cup {Null}]
        /\ above'[t] = above[t] \/ above'[t] = Null
        /\ \A o \in Threads : o # t => above'[o] = above[o]
    BY <1>1, <2>3
  <2>5. /\ OneFormats(s2, FALSE) /\ IndentsCount(s2, depths[t])
        /\ RecordIsAbove(s2, records[t], above[t], unshown[t])
        /\ RecordIsAbove(s2, records[t], Null, unshown[t])
    BY <1>1, <1>3, <1>4, <2>1, PopCall
  <2>6. RecordIsAbove(s2, records[t], above'[t], unshown[t])
    BY <2>4, <2>5, Zenon
  <2>7. LogTypeOK' /\ OnlyThread(t)
    BY <1>1, <1>6, <1>7, <2>1, <2>2, <2>4 DEF LogTypeOK, OnlyThread
  <2> QED BY <1>6, <1>7, <2>2, <2>5, <2>6, <2>7, ThreadStep
<1> QED BY <1>8, <1>9

\* LogInv is an invariant of the call log.
THEOREM LogInvariance == Spec => []LogInv
<1>1. LogInv /\ [Next]_vars => LogInv'
  <2> SUFFICES ASSUME LogInv, [Next]_vars PROVE LogInv'
    OBVIOUS
  <2>1. ASSUME NEW c \in Classes, Hook(c) \/ Unhook(c) PROVE LogInv'
    BY <2>1 DEF Hook, Unhook, LogInv, LogTypeOK
  <2>2. ASSUME NEW t \in Threads, NEW c \in Classes, CallUntraced(t, c) PROVE LogInv'
    <3>1. PICK call \in CallRecords : call = NewCall(c, "body", FALSE, Null, FALSE)
      BY DEF NewCall, CallRecords
    <3>2. call.phase = "body" /\ call.indent = Null /\ ~call.patched
      BY <3>1 DEF NewCall
    <3> QED BY <2>2, <3>1, <3>2, UnloggedStep DEF CallUntraced
  <2>3. ASSUME NEW t \in Threads, NEW c \in Classes, CallIgnored(t, c) PROVE LogInv'
    <3>1. PICK call \in CallRecords : call = NewCall(c, "body", TRUE, Null, FALSE)
      BY DEF NewCall, CallRecords
    <3>2. call.phase = "body" /\ call.indent = Null
      BY <3>1 DEF NewCall
    <3> QED BY <2>3, <3>1, <3>2, UnloggedStep DEF CallIgnored
  <2>4. ASSUME NEW t \in Threads, NEW c \in Classes, CallLogged(t, c) PROVE LogInv'
    BY <2>4, LoggedStep
  <2>5. ASSUME NEW t \in Threads, BeforeEnds(t) \/ BeforeThrows(t) PROVE LogInv'
    BY <2>5, BeforeStep
  <2>6. ASSUME NEW t \in Threads, ReturnLogged(t) PROVE LogInv'
    BY <2>6, ReturnStep
  <2>7. ASSUME NEW t \in Threads,
               ReturnUntraced(t) \/ ReturnIgnored(t) \/ AfterEnds(t) \/ AfterThrows(t)
        PROVE  LogInv'
    BY <2>7, PopStep
  <2>8. CASE UNCHANGED vars
    BY <2>8 DEF vars, LogInv, LogTypeOK
  <2> QED BY <2>1, <2>2, <2>3, <2>4, <2>5, <2>6, <2>7, <2>8 DEF Next
<1> QED BY <1>1, LogInit, PTL DEF Spec

\* The depth of a thread is the nesting of its logged calls, afterExecuted never
\* finds it unset, and the two lines of a call are indented alike.
THEOREM DepthAlwaysNesting == Spec => []DepthIsNesting
<1>1. LogInv => DepthIsNesting
  <2> SUFFICES ASSUME LogInv, NEW t \in Threads
               PROVE  /\ (IF depths[t] = Null THEN -1 ELSE depths[t]) + 1
                           = Cardinality(OpenCalls(stack[t], Len(stack[t])))
                      /\ depths[t] = Null => \A i \in 1..Len(stack[t]) : ~stack[t][i].patched
                      /\ \A i \in 1..Len(stack[t]) :
                           stack[t][i].phase = "after" => stack[t][i].exit = stack[t][i].indent
    BY Zenon DEF DepthIsNesting
  <2>1. IndentsCount(stack[t], depths[t])
    BY ThreadFacts
  <2> QED BY <2>1, Zenon DEF IndentsCount, Depth
<1> QED BY <1>1, LogInvariance, PTL

\* A thread is deaf exactly while one call of it formats, whatever formatting calls
\* and however it ends.
THEOREM NeverDeaf == Spec => []IgnoresWhileFormatting
<1>1. LogInv => IgnoresWhileFormatting
  <2> SUFFICES ASSUME LogInv, NEW t \in Threads
               PROVE  LET F == {i \in 1..Len(stack[t]) : stack[t][i].phase \in {"before", "after"}}
                      IN  (ignores[t] <=> F # {}) /\ Cardinality(F) <= 1
    BY Zenon DEF IgnoresWhileFormatting
  <2> DEFINE F == {i \in 1..Len(stack[t]) : Formats(stack[t][i])}
  <2>1. OneFormats(stack[t], ignores[t]) /\ stack[t] \in Seq(CallRecords)
    BY ThreadFacts
  <2>2. ignores[t] <=> F # {}
    BY <2>1 DEF OneFormats
  <2>3. \A i, j \in F : i = j
    <3> SUFFICES ASSUME NEW i \in F, NEW j \in F, i # j PROVE FALSE
      OBVIOUS
    <3>1. i \in 1..Len(stack[t]) /\ j \in 1..Len(stack[t])
      OBVIOUS
    <3>2. i < j \/ j < i
      BY <2>1, <3>1
    <3> QED BY <2>1, <3>1, <3>2 DEF OneFormats
  <2> HIDE DEF F
  <2>4. Cardinality(F) <= 1
    <3>1. CASE F = {}
      BY <3>1, FS_EmptySet
    <3>2. CASE F # {}
      <4>1. PICK i : i \in F
        BY <3>2
      <4>3. F = {i}
        BY <2>3, <4>1, Zenon
      <4>2. Cardinality({i}) = 1
        BY FS_Singleton
      <4> QED BY <4>2, <4>3
    <3> QED BY <3>1, <3>2
  <2> QED BY <2>2, <2>4 DEF F, Formats
<1> QED BY <1>1, LogInvariance, PTL

\* A class name is left out only under a line that shows it, unless formatting
\* threw before the recorded name was logged.
THEOREM ElisionIsRight == Spec => []ElidedNameIsAbove
<1>1. LogInv => ElidedNameIsAbove
  <2> SUFFICES ASSUME LogInv, NEW t \in Threads, NEW i \in 1..Len(stack[t]),
                      stack[t][i].phase = "before", stack[t][i].elided, ~unshown[t]
               PROVE  above[t] = stack[t][i].class
    BY DEF ElidedNameIsAbove
  <2>1. RecordIsAbove(stack[t], records[t], above[t], unshown[t])
    BY ThreadFacts
  <2> QED BY <2>1, Zenon DEF RecordIsAbove
<1> QED BY <1>1, LogInvariance, PTL

-----------------------------------------------------------------------------
(* The inductive invariant of the formatter *)

Formatters == Custom \cup ToSet(Before) \cup ToSet(After)
FrameRecords == [object : Objects, phase : {"entered", "search", "parts"},
                 chain : Seq(Formatters), parts : Seq(Objects), i : Nat]

FormatTypeOK ==
    /\ formats \in Seq(Custom) /\ array \in Seq(Formatters)
    /\ nested \in [Callers -> Seq(Objects)]
    /\ frames \in [Callers -> Seq(FrameRecords)]
    /\ thrown \in [Callers -> BOOLEAN]

\* A chain is what flush made of a list without repetitions.
Flushed(chain) == \E list \in Seq(Custom) : Once(list) /\ chain = Flush(list)
ChainsOK ==
    /\ Once(formats) /\ Flushed(array)
    /\ \A t \in Callers : \A k \in 1..Len(frames[t]) :
         frames[t][k].phase = "search" => Flushed(frames[t][k].chain)

\* The calls a thread is in are, from the outside, those that format the parts of
\* the objects on mIgnores, and at most one more, none if an exception is passing;
\* one that searches has found its object not to be on mIgnores.
CallerOK(calls, objects, passing) ==
    /\ Len(calls) = Len(objects) \/ (Len(calls) = Len(objects) + 1 /\ ~passing)
    /\ \A k \in 1..Len(calls) : calls[k].phase = "parts" <=> k <= Len(objects)
    /\ \A k \in 1..Len(objects) : objects[k] = calls[k].object
    /\ \A j, k \in 1..Len(objects) : ClassOf[objects[j]] = ClassOf[objects[k]] => j = k
    /\ \A k \in 1..Len(calls) : calls[k].phase = "search" =>
         \A j \in 1..Len(objects) : ClassOf[objects[j]] # ClassOf[calls[k].object]

FormatInv ==
    /\ FormatTypeOK /\ ChainsOK
    /\ \A t \in Callers : CallerOK(frames[t], nested[t], thrown[t])

-----------------------------------------------------------------------------
(* Chains *)

\* The formats flush puts around the custom ones.
LEMMA DefaultFormats ==
    /\ ToSet(Before) = {"FormatObject.B", "FormatIterable.B", "FormatMap.B"}
    /\ ToSet(After) = {"FormatMap.A", "FormatIterable.A", "FormatObject.A"}
<1>1. DOMAIN Before = {1, 2, 3} /\ DOMAIN After = {1, 2, 3}
  BY DEF Before, After
<1> QED BY <1>1 DEF ToSet, Before, After

\* A flushed chain consults no format twice and its last format takes anything.
LEMMA FlushFacts ==
    ASSUME NEW list \in Seq(Custom), Once(list)
    PROVE  /\ Flush(list) \in Seq(Formatters)
           /\ IsInjective(Flush(list))
           /\ "FormatObject.A" \in ToSet(Flush(list))
<1> DEFINE n == Len(list)
           c == Flush(list)
<1>1. n \in Nat /\ DOMAIN list = 1..n /\ \A i \in 1..n : list[i] \in Custom
  OBVIOUS
<1>2. /\ Len(Before) = 3 /\ Before[1] = "FormatObject.B" /\ Before[2] = "FormatIterable.B"
      /\ Before[3] = "FormatMap.B"
      /\ Len(After) = 3 /\ After[1] = "FormatMap.A" /\ After[2] = "FormatIterable.A"
      /\ After[3] = "FormatObject.A"
  BY DEF Before, After
<1>3. /\ ToSet(Before) = {"FormatObject.B", "FormatIterable.B", "FormatMap.B"}
      /\ ToSet(After) = {"FormatMap.A", "FormatIterable.A", "FormatObject.A"}
  BY DefaultFormats
<1>4. Before \in Seq(Formatters) /\ After \in Seq(Formatters) /\ list \in Seq(Formatters)
  <2>1. Before \in Seq(Formatters)
    BY <1>3 DEF Before, Formatters
  <2>2. After \in Seq(Formatters)
    BY <1>3 DEF After, Formatters
  <2>3. \A i \in 1..n : list[i] \in Formatters
    BY <1>1 DEF Formatters
  <2> QED BY <2>1, <2>2, <2>3
<1>5. /\ c \in Seq(Formatters) /\ Len(c) = n + 6
      /\ c[1] = "FormatObject.B" /\ c[2] = "FormatIterable.B" /\ c[3] = "FormatMap.B"
      /\ \A i \in 1..n : c[i + 3] = list[i]
      /\ c[n + 4] = "FormatMap.A" /\ c[n + 5] = "FormatIterable.A" /\ c[n + 6] = "FormatObject.A"
  <2> DEFINE b == Before \o list
  <2>1. /\ b \in Seq(Formatters) /\ Len(b) = n + 3
        /\ b[1] = "FormatObject.B" /\ b[2] = "FormatIterable.B" /\ b[3] = "FormatMap.B"
        /\ \A i \in 1..n : b[i + 3] = list[i]
    <3>1. /\ b \in Seq(Formatters) /\ Len(b) = Len(Before) + Len(list)
          /\ \A i \in 1..Len(Before) : b[i] = Before[i]
          /\ \A i \in 1..Len(list) : b[Len(Before) + i] = list[i]
      BY <1>4, ConcatFacts
    <3> HIDE DEF b, n
    <3>2. /\ 1 \in 1..3 /\ 2 \in 1..3 /\ 3 \in 1..3
          /\ \A i \in 1..n : 3 + i = i + 3
      BY <1>1
    <3>3. Len(list) = n /\ 3 + n = n + 3
      BY <1>1 DEF n
    <3> QED BY <1>2, <3>1, <3>2, <3>3
  <2> HIDE DEF b, n
  <2>2. c = b \o After
    BY DEF Flush, b
  <2> HIDE DEF c
  <2>3. /\ c \in Seq(Formatters) /\ Len(c) = n + 6
        /\ \A i \in 1..n + 3 : c[i] = b[i]
        /\ \A i \in 1..3 : c[n + 3 + i] = After[i]
    <3>1. /\ c \in Seq(Formatters) /\ Len(c) = Len(b) + Len(After)
          /\ \A i \in 1..Len(b) : c[i] = b[i]
          /\ \A i \in 1..Len(After) : c[Len(b) + i] = After[i]
      <4>1. b \in Seq(Formatters) /\ After \in Seq(Formatters)
        BY <1>4, <2>1
      <4> QED BY <2>2, <4>1, ConcatFacts
    <3> QED BY <1>1, <1>2, <2>1, <3>1
  <2>4. /\ 1 \in 1..n + 3 /\ 2 \in 1..n + 3 /\ 3 \in 1..n + 3
        /\ \A i \in 1..n : i + 3 \in 1..n + 3
        /\ n + 3 + 1 = n + 4 /\ n + 3 + 2 = n + 5 /\ n + 3 + 3 = n + 6
    BY <1>1
  <2> QED BY <1>2, <2>1, <2>3, <2>4
<1> HIDE DEF c, n
<1>6. IsInjective(c)
  <2>1. DOMAIN c = 1..n + 6
    BY <1>1, <1>5
  <2>2. \A i \in 1..n + 6 : \/ i \in 1..3 \/ i \in n + 4..n + 6
                            \/ \E k \in 1..n : i = k + 3
    <3> SUFFICES ASSUME NEW i \in 1..n + 6, i \notin 1..3, i \notin n + 4..n + 6
                 PROVE  \E k \in 1..n : i = k + 3
      OBVIOUS
    <3>1. i - 3 \in 1..n /\ i = (i - 3) + 3
      BY <1>1
    <3> QED BY <3>1
  <2>3. \A k \in 1..n : c[k + 3] \in Custom
    BY <1>1, <1>5
  <2>4. \A i \in 1..3 : i = 1 \/ i = 2 \/ i = 3
    OBVIOUS
  <2>5. \A i \in n + 4..n + 6 : i = n + 4 \/ i = n + 5 \/ i = n + 6
    BY <1>1
  <2>6. \A i \in 1..3 : c[i] \notin Custom
    BY <1>3, <1>5, <2>4, FormatAssumption
  <2>7. \A i \in n + 4..n + 6 : c[i] \notin Custom
    BY <1>3, <1>5, <2>5, FormatAssumption
  <2>8. ASSUME NEW i \in 1..n + 6, NEW j \in 1..n + 6, c[i] = c[j] PROVE i = j
    <3>1. CASE \E k \in 1..n : i = k + 3
      <4>1. PICK k \in 1..n : i = k + 3
        BY <3>1
      <4>2. PICK l \in 1..n : j = l + 3
        BY <2>2, <2>3, <2>6, <2>7, <2>8, <4>1
      <4>3. list[k] = list[l]
        BY <1>5, <2>8, <4>1, <4>2
      <4> QED BY <4>1, <4>2, <4>3 DEF Once, n
    <3>2. CASE \E l \in 1..n : j = l + 3
      <4>1. PICK l \in 1..n : j = l + 3
        BY <3>2
      <4>2. PICK k \in 1..n : i = k + 3
        BY <2>2, <2>3, <2>6, <2>7, <2>8, <4>1
      <4>3. list[k] = list[l]
        BY <1>5, <2>8, <4>1, <4>2
      <4> QED BY <4>1, <4>2, <4>3 DEF Once, n
    <3>3. CASE i \in 1..3 /\ j \in 1..3
      BY <1>5, <2>4, <2>8, <3>3
    <3>4. CASE i \in n + 4..n + 6 /\ j \in n + 4..n + 6
      BY <1>5, <2>5, <2>8, <3>4
    <3>5. CASE i \in 1..3 /\ j \in n + 4..n + 6
      BY <1>5, <2>4, <2>5, <2>8, <3>5
    <3>6. CASE j \in 1..3 /\ i \in n + 4..n + 6
      BY <1>5, <2>4, <2>5, <2>8, <3>6
    <3> QED BY <2>2, <3>1, <3>2, <3>3, <3>4, <3>5, <3>6
  <2> QED BY <2>1, <2>8 DEF IsInjective
<1>7. "FormatObject.A" \in ToSet(c)
  <2>1. n + 6 \in DOMAIN c
    BY <1>1, <1>5
  <2> QED BY <1>5, <2>1 DEF ToSet
<1> QED BY <1>5, <1>6, <1>7 DEF c

\* add and remove keep the list free of repetitions.
LEMMA ListFacts ==
    ASSUME NEW list \in Seq(Custom), Once(list), NEW f \in Custom
    PROVE  /\ RemoveFirst(list, f) \in Seq(Custom) /\ Once(RemoveFirst(list, f))
           /\ <<f>> \o RemoveFirst(list, f) \in Seq(Custom)
           /\ Once(<<f>> \o RemoveFirst(list, f))
<1>1. PICK r : r = RemoveFirst(list, f)
  OBVIOUS
<1>2. r \in Seq(Custom) /\ Once(r) /\ \A i \in 1..Len(r) : r[i] # f
  BY <1>1, RemoveFirstFacts
<1>3. PICK a : a = <<f>> \o r
  OBVIOUS
<1>4. /\ a \in Seq(Custom) /\ Len(a) = Len(r) + 1 /\ a[1] = f
      /\ \A i \in 2..Len(r) + 1 : a[i] = r[i - 1]
  BY <1>2, <1>3
<1>5. Once(a)
  <2> SUFFICES ASSUME NEW i \in 1..Len(r) + 1, NEW j \in 1..Len(r) + 1, a[i] = a[j]
               PROVE  i = j
    BY <1>4 DEF Once
  <2>1. Len(r) \in Nat /\ \A k \in 1..Len(r) + 1 : k = 1 \/ (k \in 2..Len(r) + 1 /\ k - 1 \in 1..Len(r))
    BY <1>2
  <2>2. CASE i = 1
    BY <1>2, <1>4, <2>1, <2>2
  <2>3. CASE j = 1
    BY <1>2, <1>4, <2>1, <2>3
  <2>4. CASE i # 1 /\ j # 1
    <3>1. r[i - 1] = r[j - 1] /\ i - 1 \in 1..Len(r) /\ j - 1 \in 1..Len(r)
      BY <1>4, <2>1, <2>4
    <3>2. i - 1 = j - 1
      BY <1>2, <3>1 DEF Once
    <3> QED BY <3>2
  <2> QED BY <2>2, <2>3, <2>4
<1> QED BY <1>1, <1>2, <1>3, <1>4, <1>5

\* The parts a format answers with are objects.
LEMMA PartsAreObjects ==
    ASSUME NEW f \in Formatters, NEW o \in Objects
    PROVE  PartsOf(f, o) \in Seq(Objects)
<1>1. ASSUME NEW p \in Seq(Objects) PROVE Paired(p) \in Seq(Objects)
  <2>1. Append(p, NullObject) \in Seq(Objects)
    BY FormatAssumption
  <2> QED BY <2>1 DEF Paired
<1>2. ItemsOf[o] \in Seq(Objects) /\ << >> \in Seq(Objects)
  BY FormatAssumption
<1>3. PICK x \in Seq(Objects) : x = Paired(ItemsOf[o])
  BY <1>1, <1>2
<1>4. /\ ToSet(Before) = {"FormatObject.B", "FormatIterable.B", "FormatMap.B"}
      /\ ToSet(After) = {"FormatMap.A", "FormatIterable.A", "FormatObject.A"}
  BY DefaultFormats
<1>5. CASE f \in Custom
  <2>1. ValuesOf[f][o] \in Seq(Objects)
    BY <1>5, FormatAssumption
  <2>2. Paired(toArray2(f, o)) \in Seq(Objects)
    BY <1>1, <2>1 DEF toArray2
  <2>3. /\ f \notin {"FormatObject.B", "FormatObject.A"}
        /\ f \notin {"FormatIterable.B", "FormatIterable.A"}
        /\ f \notin {"FormatMap.B", "FormatMap.A"}
    BY <1>4, <1>5, FormatAssumption
  <2> QED BY <2>2, <2>3 DEF PartsOf
<1>6. CASE f \in ToSet(Before) \cup ToSet(After)
  BY <1>2, <1>3, <1>4, <1>6 DEF PartsOf
<1> QED BY <1>5, <1>6 DEF Formatters

-----------------------------------------------------------------------------
(* What each step of toString does to one thread *)

\* A nested toString, or the first, is entered.
LEMMA EnterFrame ==
    ASSUME NEW s \in Seq(FrameRecords), NEW ns \in Seq(Objects), NEW p, ~p,
           CallerOK(s, ns, p), Len(s) = Len(ns),
           NEW s1 \in Seq(FrameRecords), Len(s1) = Len(s),
           \A k \in 1..Len(s) : s1[k].phase = s[k].phase /\ s1[k].object = s[k].object,
           NEW f \in FrameRecords, f.phase = "entered"
    PROVE  CallerOK(Append(s1, f), ns, p)
<1> DEFINE n == Len(s)
           s2 == Append(s1, f)
<1>1. /\ n \in Nat /\ s2 \in Seq(FrameRecords) /\ Len(s2) = n + 1 /\ s2[n + 1] = f
      /\ \A i \in 1..n : s2[i] = s1[i]
  BY PushFacts
<1>2. \A i \in 1..n + 1 : i \in 1..n \/ i = n + 1
  BY <1>1
<1>3. \A i \in 1..n : s2[i].phase = s[i].phase /\ s2[i].object = s[i].object
  BY <1>1
<1>4. Len(ns) = n /\ Len(s) = n
  OBVIOUS
<1> HIDE DEF s2, n
<1>5. \A k \in 1..n + 1 : s2[k].phase = "parts" <=> k <= n
  BY <1>1, <1>2, <1>3, <1>4 DEF CallerOK
<1>6. \A k \in 1..n : ns[k] = s2[k].object
  BY <1>3, <1>4 DEF CallerOK
<1>7. \A k \in 1..n + 1 : s2[k].phase # "search"
  <2>1. \A k \in 1..n : s2[k].phase = "parts"
    BY <1>1, <1>2, <1>5
  <2> QED BY <1>1, <1>2, <2>1
<1>8. \A j, k \in 1..n : ClassOf[ns[j]] = ClassOf[ns[k]] => j = k
  BY <1>4 DEF CallerOK
<1> QED BY <1>1, <1>4, <1>5, <1>6, <1>7, <1>8 DEF CallerOK, s2

\* The array is read for an object that is not inside itself.
LEMMA SearchFrame ==
    ASSUME NEW s \in Seq(FrameRecords), s # << >>, NEW ns \in Seq(Objects), NEW p,
           CallerOK(s, ns, p), s[Len(s)].phase = "entered",
           \A k \in 1..Len(ns) : ClassOf[ns[k]] # ClassOf[s[Len(s)].object],
           NEW f \in FrameRecords, f.phase = "search", f.object = s[Len(s)].object
    PROVE  CallerOK([s EXCEPT ![Len(s)] = f], ns, p)
<1> DEFINE n == Len(s)
           s2 == [s EXCEPT ![Len(s)] = f]
<1>1. /\ n \in Nat /\ n >= 1 /\ s2 \in Seq(FrameRecords) /\ Len(s2) = n /\ s2[n] = f
      /\ \A i \in 1..n : i < n => s2[i] = s[i]
  BY SetTopFacts
<1>2. (\A i \in 1..n : i < n \/ i = n) /\ n \in 1..n /\ Len(s) = n
  <2>1. Len(s) = n
    OBVIOUS
  <2> HIDE DEF n, s2
  <2> QED BY <1>1, <2>1
<1>3. Len(ns) \in Nat
  OBVIOUS
<1> HIDE DEF s2, n
<1>4. Len(ns) < n /\ (n = Len(ns) \/ (n = Len(ns) + 1 /\ ~p))
  BY <1>1, <1>2, <1>3 DEF CallerOK
<1>5. \A k \in 1..n : s2[k].phase = "parts" <=> k <= Len(ns)
  BY <1>1, <1>2, <1>3, <1>4 DEF CallerOK
<1>6. \A k \in 1..Len(ns) : ns[k] = s2[k].object
  BY <1>1, <1>2, <1>3, <1>4 DEF CallerOK
<1>7. ASSUME NEW k \in 1..n, s2[k].phase = "search", NEW j \in 1..Len(ns)
      PROVE  ClassOf[ns[j]] # ClassOf[s2[k].object]
  <2>1. CASE k < n
    BY <1>1, <1>2, <1>7, <2>1 DEF CallerOK
  <2>2. CASE k = n
    BY <1>1, <1>2, <2>2
  <2> QED BY <1>2, <2>1, <2>2
<1>8. \A j, k \in 1..Len(ns) : ClassOf[ns[j]] = ClassOf[ns[k]] => j = k
  BY DEF CallerOK
<1> QED BY <1>1, <1>4, <1>5, <1>6, <1>7, <1>8 DEF CallerOK, s2

\* The object of a searching frame is pushed and its parts are begun.
LEMMA OpenFrame ==
    ASSUME NEW s \in Seq(FrameRecords), s # << >>, NEW ns \in Seq(Objects), NEW p,
           CallerOK(s, ns, p), s[Len(s)].phase = "search", s[Len(s)].object \in Objects,
           NEW f \in FrameRecords, f.phase = "parts", f.object = s[Len(s)].object
    PROVE  CallerOK([s EXCEPT ![Len(s)] = f], Append(ns, s[Len(s)].object), p)
<1> DEFINE n == Len(s)
           m == Len(ns)
           o == s[Len(s)].object
           s2 == [s EXCEPT ![Len(s)] = f]
           ns2 == Append(ns, o)
<1>1. /\ n \in Nat /\ n >= 1 /\ s2 \in Seq(FrameRecords) /\ Len(s2) = n /\ s2[n] = f
      /\ \A i \in 1..n : i < n => s2[i] = s[i]
  BY SetTopFacts
<1>2. (\A i \in 1..n : i < n \/ i = n) /\ n \in 1..n /\ Len(s) = n
  <2>1. Len(s) = n
    OBVIOUS
  <2> HIDE DEF n, s2
  <2> QED BY <1>1, <2>1
<1>3. /\ m \in Nat /\ Len(ns) = m /\ Len(ns2) = m + 1 /\ ns2[m + 1] = o
      /\ \A i \in 1..m : ns2[i] = ns[i]
  BY PushFacts
<1>4. \A i \in 1..m + 1 : i \in 1..m \/ i = m + 1
  BY <1>3
<1>5. s[n].phase = "search" /\ s[n].object = o /\ f.object = o
  OBVIOUS
<1> HIDE DEF s2, n, ns2, m, o
<1>6. n = m + 1
  BY <1>1, <1>2, <1>3, <1>5 DEF CallerOK
<1>7. \A k \in 1..n : s2[k].phase = "parts" <=> k <= m + 1
  BY <1>1, <1>2, <1>3, <1>6 DEF CallerOK
<1>8. \A k \in 1..m + 1 : ns2[k] = s2[k].object
  <2>1. \A k \in 1..m : k \in 1..n /\ k < n
    BY <1>3, <1>6
  <2>2. \A k \in 1..m : ns[k] = s[k].object
    BY <1>3 DEF CallerOK
  <2> QED BY <1>1, <1>3, <1>4, <1>5, <1>6, <2>1, <2>2
<1>9. ASSUME NEW j \in 1..m + 1, NEW k \in 1..m + 1, ClassOf[ns2[j]] = ClassOf[ns2[k]]
      PROVE  j = k
  <2>1. \A i \in 1..m : ClassOf[ns[i]] # ClassOf[o]
    BY <1>2, <1>3, <1>5 DEF CallerOK
  <2>2. \A i, l \in 1..m : ClassOf[ns[i]] = ClassOf[ns[l]] => i = l
    BY <1>3 DEF CallerOK
  <2> QED BY <1>3, <1>4, <1>9, <2>1, <2>2
<1>10. \A k \in 1..n : s2[k].phase # "search"
  BY <1>1, <1>6, <1>7
<1> QED BY <1>1, <1>3, <1>6, <1>7, <1>8, <1>9, <1>10 DEF CallerOK, s2, ns2, o

\* A frame that has not begun its parts ends.
LEMMA DropFrame ==
    ASSUME NEW s \in Seq(FrameRecords), s # << >>, NEW ns \in Seq(Objects), NEW p, NEW q,
           CallerOK(s, ns, p), s[Len(s)].phase # "parts"
    PROVE  CallerOK(Front(s), ns, q)
<1> DEFINE n == Len(s) - 1
           s2 == Front(s)
<1>1. /\ n \in Nat /\ Len(s) = n + 1 /\ s2 \in Seq(FrameRecords) /\ Len(s2) = n
      /\ \A i \in 1..n : s2[i] = s[i]
  <2>1. Len(s) \in Nat /\ Len(s) >= 1
    OBVIOUS
  <2> QED BY <2>1, FrontFacts
<1>2. Len(ns) \in Nat
  OBVIOUS
<1> HIDE DEF s2, n
<1>3. Len(ns) = n
  <2>1. n + 1 \in 1..Len(s) /\ s[n + 1].phase # "parts"
    BY <1>1
  <2> QED BY <1>1, <1>2, <2>1 DEF CallerOK
<1>4. \A k \in 1..n : k \in 1..n + 1
  BY <1>1
<1>5. \A k \in 1..n : s2[k].phase = "parts" <=> k <= n
  BY <1>1, <1>3, <1>4 DEF CallerOK
<1>6. \A k \in 1..n : ns[k] = s2[k].object
  BY <1>1, <1>3, <1>4 DEF CallerOK
<1>7. \A k \in 1..n : s2[k].phase # "search"
  BY <1>1, <1>5
<1>8. \A j, k \in 1..n : ClassOf[ns[j]] = ClassOf[ns[k]] => j = k
  BY <1>3 DEF CallerOK
<1> QED BY <1>1, <1>3, <1>5, <1>6, <1>7, <1>8 DEF CallerOK, s2

\* A frame that is formatting parts ends, and its object is popped.
LEMMA CloseFrame ==
    ASSUME NEW s \in Seq(FrameRecords), s # << >>, NEW ns \in Seq(Objects), NEW p,
           CallerOK(s, ns, p), s[Len(s)].phase = "parts"
    PROVE  ns # << >> /\ CallerOK(Front(s), Front(ns), p)
<1> DEFINE n == Len(s) - 1
           s2 == Front(s)
           ns2 == Front(ns)
<1>1. /\ n \in Nat /\ Len(s) = n + 1 /\ s2 \in Seq(FrameRecords) /\ Len(s2) = n
      /\ \A i \in 1..n : s2[i] = s[i]
  <2>1. Len(s) \in Nat /\ Len(s) >= 1
    OBVIOUS
  <2> QED BY <2>1, FrontFacts
<1>2. Len(ns) \in Nat
  OBVIOUS
<1> HIDE DEF s2, n
<1>3. Len(ns) = n + 1
  <2>1. n + 1 \in 1..Len(s) /\ s[n + 1].phase = "parts"
    BY <1>1
  <2> QED BY <1>1, <1>2, <2>1 DEF CallerOK
<1>4. ns # << >>
  BY <1>1, <1>3
<1>5. ns2 \in Seq(Objects) /\ Len(ns2) = n /\ \A i \in 1..n : ns2[i] = ns[i]
  <2>1. Len(ns2) = Len(ns) - 1 /\ \A i \in 1..Len(ns) - 1 : ns2[i] = ns[i]
    BY <1>4, FrontFacts
  <2>2. Len(ns) - 1 = n /\ ns2 \in Seq(Objects)
    BY <1>1, <1>3, <1>4, FrontFacts
  <2> QED BY <2>1, <2>2
<1> HIDE DEF ns2
<1>6. \A k \in 1..n : k \in 1..n + 1 /\ k <= n + 1 /\ k <= n
  BY <1>1
<1>7. \A k \in 1..n : s2[k].phase = "parts"
  BY <1>1, <1>3, <1>6 DEF CallerOK
<1>8. \A k \in 1..n : ns2[k] = s2[k].object
  BY <1>1, <1>3, <1>5, <1>6 DEF CallerOK
<1>9. \A j, k \in 1..n : ClassOf[ns2[j]] = ClassOf[ns2[k]] => j = k
  BY <1>3, <1>5, <1>6 DEF CallerOK
<1>10. CallerOK(s2, ns2, p)
  BY <1>1, <1>5, <1>6, <1>7, <1>8, <1>9 DEF CallerOK
<1> QED BY <1>4, <1>10 DEF s2, ns2

-----------------------------------------------------------------------------
(* FormatInv is inductive *)

\* The initial state satisfies the invariant.
LEMMA FormatInitial == FormatInit => FormatInv
<1> SUFFICES ASSUME FormatInit PROVE FormatInv
  OBVIOUS
<1>1. << >> \in Seq(Custom) /\ Once(<< >>)
  BY DEF Once
<1>2. array \in Seq(Formatters) /\ Flushed(array)
  BY <1>1, FlushFacts DEF FormatInit, Flushed
<1>3. FormatTypeOK
  <2>1. nested \in [Callers -> Seq(Objects)] /\ frames \in [Callers -> Seq(FrameRecords)]
    BY DEF FormatInit
  <2>2. thrown \in [Callers -> BOOLEAN]
    BY DEF FormatInit
  <2> QED BY <1>1, <1>2, <2>1, <2>2 DEF FormatInit, FormatTypeOK
<1>4. \A t \in Callers : Len(frames[t]) = 0 /\ Len(nested[t]) = 0
  BY DEF FormatInit
<1>5. ChainsOK
  BY <1>1, <1>2, <1>4 DEF FormatInit, ChainsOK
<1>6. \A t \in Callers : CallerOK(frames[t], nested[t], thrown[t])
  BY <1>4 DEF CallerOK
<1> QED BY <1>3, <1>5, <1>6 DEF FormatInv

\* What is known of a thread.
LEMMA CallerFacts ==
    ASSUME FormatInv, NEW t \in Callers
    PROVE  /\ frames \in [Callers -> Seq(FrameRecords)] /\ frames[t] \in Seq(FrameRecords)
           /\ nested \in [Callers -> Seq(Objects)] /\ nested[t] \in Seq(Objects)
           /\ CallerOK(frames[t], nested[t], thrown[t])
           /\ Busy(t) => /\ frames[t] # << >> /\ Frame(t) = frames[t][Len(frames[t])]
                         /\ Frame(t) \in FrameRecords /\ Len(frames[t]) \in 1..Len(frames[t])
<1>1. /\ frames \in [Callers -> Seq(FrameRecords)] /\ nested \in [Callers -> Seq(Objects)]
      /\ CallerOK(frames[t], nested[t], thrown[t])
  BY DEF FormatInv, FormatTypeOK
<1>2. frames[t] \in Seq(FrameRecords) /\ nested[t] \in Seq(Objects)
  BY <1>1
<1> QED BY <1>1, <1>2 DEF Busy, Frame

\* A step of thread t after which its frames are s, its objects ns and its
\* exception p.
StepTo(t, s, ns, p) ==
    /\ frames' = [frames EXCEPT ![t] = s]
    /\ nested' = [nested EXCEPT ![t] = ns]
    /\ thrown' = [thrown EXCEPT ![t] = p]
    /\ formats' = formats /\ array' = array
SearchesOK(s) == \A k \in 1..Len(s) : s[k].phase = "search" => Flushed(s[k].chain)

\* Such a step keeps the invariant if it keeps what is said of the thread.
LEMMA CallerStep ==
    ASSUME FormatInv, NEW t \in Callers, NEW s \in Seq(FrameRecords),
           NEW ns \in Seq(Objects), NEW p \in BOOLEAN, StepTo(t, s, ns, p),
           CallerOK(s, ns, p), SearchesOK(s)
    PROVE  FormatInv'
<1>1. /\ frames \in [Callers -> Seq(FrameRecords)] /\ nested \in [Callers -> Seq(Objects)]
      /\ thrown \in [Callers -> BOOLEAN]
  BY DEF FormatInv, FormatTypeOK
<1>0. /\ frames' = [frames EXCEPT ![t] = s]
      /\ nested' = [nested EXCEPT ![t] = ns]
      /\ thrown' = [thrown EXCEPT ![t] = p]
      /\ formats' = formats /\ array' = array
  BY DEF StepTo
<1>2. /\ frames'[t] = s /\ nested'[t] = ns
      /\ \A o \in Callers : o # t => frames'[o] = frames[o] /\ nested'[o] = nested[o]
  BY <1>0, <1>1
<1>3. thrown'[t] = p /\ \A o \in Callers : o # t => thrown'[o] = thrown[o]
  BY <1>0, <1>1
<1>4. FormatTypeOK'
  <2>1. thrown' \in [Callers -> BOOLEAN]
    BY <1>0, <1>1
  <2>2. formats' \in Seq(Custom) /\ array' \in Seq(Formatters)
    BY <1>0 DEF FormatInv, FormatTypeOK
  <2> QED BY <1>0, <1>1, <2>1, <2>2 DEF FormatTypeOK
<1>5. ChainsOK'
  <2>1. formats' = formats /\ array' = array /\ ChainsOK
    BY <1>0 DEF FormatInv
  <2>2. Once(formats') /\ Flushed(array')
    BY <2>1 DEF ChainsOK
  <2>3. ASSUME NEW o \in Callers
        PROVE  \A k \in 1..Len(frames'[o]) :
                  frames'[o][k].phase = "search" => Flushed(frames'[o][k].chain)
    <3>1. CASE o = t
      BY <1>2, <3>1 DEF SearchesOK
    <3>2. CASE o # t
      <4>1. frames'[o] = frames[o]
        BY <1>2, <3>2
      <4>2. \A k \in 1..Len(frames[o]) :
               frames[o][k].phase = "search" => Flushed(frames[o][k].chain)
        BY <2>1, Zenon DEF ChainsOK
      <4> QED BY <4>1, <4>2, Zenon
    <3> QED BY <3>1, <3>2
  <2> QED BY <2>2, <2>3, Zenon DEF ChainsOK
<1>6. ASSUME NEW o \in Callers PROVE CallerOK(frames'[o], nested'[o], thrown'[o])
  <2>1. CASE o = t
    BY <1>2, <1>3, <2>1
  <2>2. CASE o # t
    <3>1. CallerOK(frames[o], nested[o], thrown[o])
      BY DEF FormatInv
    <3>2. frames'[o] = frames[o] /\ nested'[o] = nested[o] /\ thrown'[o] = thrown[o]
      BY <1>2, <1>3, <2>2
    <3> QED BY <3>1, <3>2, Zenon
  <2> QED BY <2>1, <2>2
<1> QED BY <1>4, <1>5, <1>6, Zenon DEF FormatInv

\* The chains of a thread's frames.
LEMMA ChainsOfCaller ==
    ASSUME FormatInv, NEW t \in Callers
    PROVE  \A k \in 1..Len(frames[t]) :
              frames[t][k].phase = "search" => Flushed(frames[t][k].chain)
BY DEF FormatInv, ChainsOK

\* add and remove: the frames that search keep the array they read.
LEMMA ChainStep ==
    ASSUME FormatInv, NEW f \in Custom, Add(f) \/ RemoveFormat(f)
    PROVE  FormatInv'
<1>1. formats \in Seq(Custom) /\ Once(formats)
  BY DEF FormatInv, FormatTypeOK, ChainsOK
<1>2. /\ formats' = <<f>> \o RemoveFirst(formats, f) \/ formats' = RemoveFirst(formats, f)
      /\ array' = Flush(formats') /\ nested' = nested /\ frames' = frames /\ thrown' = thrown
  BY DEF Add, RemoveFormat, callVars
<1>3. formats' \in Seq(Custom) /\ Once(formats')
  BY <1>1, <1>2, ListFacts
<1>4. array' \in Seq(Formatters) /\ Flushed(array')
  BY <1>2, <1>3, FlushFacts DEF Flushed
<1>5. FormatTypeOK'
  BY <1>2, <1>3, <1>4 DEF FormatInv, FormatTypeOK
<1>6. ChainsOK'
  BY <1>2, <1>3, <1>4 DEF FormatInv, ChainsOK
<1>7. \A t \in Callers : CallerOK(frames'[t], nested'[t], thrown'[t])
  BY <1>2 DEF FormatInv
<1> QED BY <1>5, <1>6, <1>7, Zenon DEF FormatInv

\* What a step leaves alone, in the form of CallerStep.
LEMMA CallerSame ==
    ASSUME FormatInv, NEW t \in Callers
    PROVE  /\ frames = [frames EXCEPT ![t] = frames[t]]
           /\ nested = [nested EXCEPT ![t] = nested[t]]
           /\ thrown = [thrown EXCEPT ![t] = thrown[t]] /\ thrown[t] \in BOOLEAN
<1>1. /\ frames \in [Callers -> Seq(FrameRecords)] /\ nested \in [Callers -> Seq(Objects)]
      /\ thrown \in [Callers -> BOOLEAN]
  BY DEF FormatInv, FormatTypeOK
<1> QED BY <1>1

\* toString is called, from outside or for a part.
LEMMA EnterStep ==
    ASSUME FormatInv, NEW t \in Callers,
           (\E o \in Objects : Call(t, o)) \/ NextPart(t)
    PROVE  FormatInv'
<1>1. /\ frames \in [Callers -> Seq(FrameRecords)] /\ frames[t] \in Seq(FrameRecords)
      /\ nested \in [Callers -> Seq(Objects)] /\ nested[t] \in Seq(Objects)
      /\ CallerOK(frames[t], nested[t], thrown[t])
  BY CallerFacts
<1>2. /\ nested = [nested EXCEPT ![t] = nested[t]]
      /\ thrown = [thrown EXCEPT ![t] = thrown[t]] /\ thrown[t] \in BOOLEAN
  BY CallerSame
<1>3. UNCHANGED chainVars /\ nested' = nested /\ thrown' = thrown /\ ~thrown[t]
  BY DEF Call, NextPart, chainVars, In
<1>4. ASSUME NEW s1 \in Seq(FrameRecords), Len(s1) = Len(frames[t]),
             Len(frames[t]) = Len(nested[t]),
             \A k \in 1..Len(frames[t]) : /\ s1[k].phase = frames[t][k].phase
                                          /\ s1[k].object = frames[t][k].object,
             NEW o \in Objects,
             frames' = [frames EXCEPT ![t] = Append(s1, NewFrame(o))]
      PROVE  FormatInv'
  <2>1. NewFrame(o) \in FrameRecords /\ NewFrame(o).phase = "entered"
    <3>1. << >> \in Seq(Formatters) /\ << >> \in Seq(Objects)
      OBVIOUS
    <3> QED BY <3>1 DEF NewFrame, FrameRecords
  <2>2. PICK f \in FrameRecords : f = NewFrame(o) /\ f.phase = "entered"
    BY <2>1
  <2>3. PICK s2 : s2 = Append(s1, f)
    OBVIOUS
  <2>4. CallerOK(s2, nested[t], thrown[t])
    BY <1>1, <1>3, <1>4, <2>2, <2>3, EnterFrame
  <2>5. /\ s2 \in Seq(FrameRecords) /\ Len(s2) = Len(s1) + 1 /\ s2[Len(s1) + 1] = f
        /\ \A k \in 1..Len(s1) : s2[k] = s1[k]
    BY <2>3, PushFacts
  <2>6. \A k \in 1..Len(s2) : s2[k].phase # "search"
    <3>1. Len(s1) \in Nat /\ Len(s1) = Len(nested[t])
      BY <1>4
    <3>2. \A k \in 1..Len(s1) : k <= Len(nested[t]) /\ k \in 1..Len(frames[t])
      BY <1>4, <3>1
    <3>3. \A k \in 1..Len(s1) : s1[k].phase = "parts"
      BY <1>1, <1>4, <3>2 DEF CallerOK
    <3>4. \A k \in 1..Len(s2) : k \in 1..Len(s1) \/ k = Len(s1) + 1
      BY <2>5, <3>1
    <3> QED BY <2>2, <2>5, <3>3, <3>4
  <2>7. frames' = [frames EXCEPT ![t] = s2]
    BY <1>4, <2>2, <2>3
  <2>8. StepTo(t, s2, nested[t], thrown[t]) /\ SearchesOK(s2)
    BY <1>2, <1>3, <2>6, <2>7 DEF StepTo, SearchesOK, chainVars
  <2> QED BY <1>1, <1>2, <2>4, <2>5, <2>8, CallerStep
<1>5. CASE \E o \in Objects : Call(t, o)
  <2>1. PICK o \in Objects : Call(t, o)
    BY <1>5
  <2>2. frames[t] = << >> /\ frames' = [frames EXCEPT ![t] = <<NewFrame(o)>>]
    BY <2>1 DEF Call, Busy
  <2>3. Append(<< >>, NewFrame(o)) = <<NewFrame(o)>>
    OBVIOUS
  <2>4. Len(frames[t]) = 0 /\ Len(nested[t]) = 0
    <3>1. Len(frames[t]) = 0 /\ Len(nested[t]) \in Nat
      BY <1>1, <2>2
    <3> QED BY <1>1, <3>1 DEF CallerOK
  <2>5. << >> \in Seq(FrameRecords) /\ Len(<< >>) = 0
    OBVIOUS
  <2>6. frames' = [frames EXCEPT ![t] = Append(<< >>, NewFrame(o))]
    BY <2>2, <2>3
  <2> QED BY <1>4, <2>2, <2>4, <2>5, <2>6
<1>6. CASE NextPart(t)
  <2>1. In(t, "parts")
    BY <1>6 DEF NextPart
  <2>2. /\ frames[t] # << >> /\ Frame(t) = frames[t][Len(frames[t])]
        /\ Frame(t) \in FrameRecords /\ Len(frames[t]) \in 1..Len(frames[t])
        /\ Frame(t).phase = "parts"
    BY <2>1, CallerFacts DEF In
  <2>3. PICK n \in Nat : n = Frame(t).i
    BY <2>2 DEF FrameRecords
  <2>4. PICK o : o = Frame(t).parts[n + 1]
    OBVIOUS
  <2>5. o \in Objects
    <3>1. n < Len(Frame(t).parts) /\ Frame(t).parts \in Seq(Objects)
      BY <1>6, <2>2, <2>3 DEF NextPart, FrameRecords
    <3>2. n + 1 \in 1..Len(Frame(t).parts)
      BY <3>1
    <3> QED BY <2>4, <3>1, <3>2
  <2>6. PICK g \in FrameRecords : g = [Frame(t) EXCEPT !.i = n + 1]
    <3>1. n + 1 \in Nat
      OBVIOUS
    <3>2. [Frame(t) EXCEPT !.i = n + 1] \in FrameRecords
      BY <2>2, <3>1 DEF FrameRecords
    <3> QED BY <3>2
  <2>7. g.phase = Frame(t).phase /\ g.object = Frame(t).object
    BY <2>2, <2>6 DEF FrameRecords
  <2>8. PICK s1 : s1 = [frames[t] EXCEPT ![Len(frames[t])] = g]
    OBVIOUS
  <2>9. /\ s1 \in Seq(FrameRecords) /\ Len(s1) = Len(frames[t]) /\ s1[Len(frames[t])] = g
        /\ \A k \in 1..Len(frames[t]) : k < Len(frames[t]) => s1[k] = frames[t][k]
    BY <1>1, <2>2, <2>8, SetTopFacts
  <2>10. frames' = [frames EXCEPT ![t] = Append(s1, NewFrame(o))]
    <3>1. [frames[t] EXCEPT ![Len(frames[t])].i = n + 1] = s1
      BY <1>1, <2>2, <2>6, <2>8
    <3> QED BY <1>1, <1>6, <2>3, <2>4, <3>1 DEF NextPart
  <2>11. Len(frames[t]) = Len(nested[t])
    <3>1. Len(frames[t]) \in Nat /\ Len(nested[t]) \in Nat
      BY <1>1
    <3>2. Len(frames[t]) <= Len(nested[t])
      BY <1>1, <2>2 DEF CallerOK
    <3> QED BY <1>1, <3>1, <3>2 DEF CallerOK
  <2>12. \A k \in 1..Len(frames[t]) : /\ s1[k].phase = frames[t][k].phase
                                      /\ s1[k].object = frames[t][k].object
    <3>1. \A k \in 1..Len(frames[t]) : k < Len(frames[t]) \/ k = Len(frames[t])
      BY <1>1
    <3> QED BY <2>2, <2>7, <2>9, <3>1
  <2> QED BY <1>4, <2>5, <2>9, <2>10, <2>11, <2>12
<1> QED BY <1>5, <1>6

\* A frame ends without having begun parts.
LEMMA ReturnFrameStep ==
    ASSUME FormatInv, NEW t \in Callers, ReturnThis(t) \/ ReturnText(t) \/ Throw(t)
    PROVE  FormatInv'
<1>1. /\ frames \in [Callers -> Seq(FrameRecords)] /\ frames[t] \in Seq(FrameRecords)
      /\ nested[t] \in Seq(Objects)
      /\ CallerOK(frames[t], nested[t], thrown[t])
  BY CallerFacts
<1>2. /\ nested = [nested EXCEPT ![t] = nested[t]]
      /\ thrown = [thrown EXCEPT ![t] = thrown[t]] /\ thrown[t] \in BOOLEAN
  BY CallerSame
<1>3. /\ UNCHANGED chainVars /\ nested' = nested
      /\ thrown' = thrown \/ thrown' = [thrown EXCEPT ![t] = TRUE]
      /\ In(t, "entered") \/ In(t, "search")
      /\ frames' = [frames EXCEPT ![t] = Drop(frames[t])]
  BY DEF ReturnThis, ReturnText, Throw, chainVars
<1>4. /\ frames[t] # << >> /\ Frame(t) = frames[t][Len(frames[t])]
      /\ Frame(t).phase # "parts"
  BY <1>3, CallerFacts DEF In
<1>5. PICK p \in BOOLEAN : thrown' = [thrown EXCEPT ![t] = p]
  BY <1>2, <1>3
<1>6. PICK s2 : s2 = Front(frames[t])
  OBVIOUS
<1>7. frames' = [frames EXCEPT ![t] = s2]
  BY <1>3, <1>6 DEF Drop, Front
<1>8. CallerOK(s2, nested[t], p)
  BY <1>1, <1>4, <1>6, DropFrame
<1>9. /\ s2 \in Seq(FrameRecords)
      /\ \A k \in 1..Len(s2) : k \in 1..Len(frames[t]) /\ s2[k] = frames[t][k]
  <2>1. /\ s2 \in Seq(FrameRecords) /\ Len(s2) = Len(frames[t]) - 1
        /\ \A k \in 1..Len(frames[t]) - 1 : s2[k] = frames[t][k]
    BY <1>1, <1>4, <1>6, FrontFacts
  <2>2. Len(frames[t]) \in Nat
    BY <1>1
  <2> QED BY <2>1, <2>2
<1>10. \A k \in 1..Len(s2) : s2[k].phase = "search" => Flushed(s2[k].chain)
  BY <1>9, ChainsOfCaller
<1>11. StepTo(t, s2, nested[t], p) /\ SearchesOK(s2)
  BY <1>2, <1>3, <1>5, <1>7, <1>10 DEF StepTo, SearchesOK, chainVars
<1> QED BY <1>1, <1>5, <1>8, <1>9, <1>11, CallerStep

\* A frame ends while it formats parts, because all are text or because an
\* exception passes: the finally pops its object.
LEMMA PopFrameStep ==
    ASSUME FormatInv, NEW t \in Callers, PopObject(t) \/ Unwind(t)
    PROVE  FormatInv'
<1>1. /\ frames \in [Callers -> Seq(FrameRecords)] /\ frames[t] \in Seq(FrameRecords)
      /\ nested[t] \in Seq(Objects)
      /\ CallerOK(frames[t], nested[t], thrown[t])
  BY CallerFacts
<1>2. thrown = [thrown EXCEPT ![t] = thrown[t]] /\ thrown[t] \in BOOLEAN
  BY CallerSame
<1>3. /\ UNCHANGED chainVars /\ thrown' = thrown
      /\ frames' = [frames EXCEPT ![t] = Drop(frames[t])]
      /\ nested' = [nested EXCEPT ![t] = Drop(nested[t])]
      /\ In(t, "parts") \/ (Busy(t) /\ thrown[t])
  BY DEF PopObject, Unwind, chainVars
<1>4. /\ frames[t] # << >> /\ Frame(t) = frames[t][Len(frames[t])]
      /\ Len(frames[t]) \in 1..Len(frames[t])
  BY <1>3, CallerFacts DEF In
<1>5. frames[t][Len(frames[t])].phase = "parts"
  <2>1. CASE In(t, "parts")
    BY <1>4, <2>1 DEF In
  <2>2. CASE thrown[t]
    <3>1. Len(frames[t]) = Len(nested[t]) /\ Len(nested[t]) \in Nat
      BY <1>1, <2>2 DEF CallerOK
    <3> QED BY <1>1, <1>4, <3>1 DEF CallerOK
  <2> QED BY <1>3, <2>1, <2>2
<1>6. PICK s2, ns2 : s2 = Front(frames[t]) /\ ns2 = Front(nested[t])
  OBVIOUS
<1>7. frames' = [frames EXCEPT ![t] = s2] /\ nested' = [nested EXCEPT ![t] = ns2]
  BY <1>3, <1>6 DEF Drop, Front
<1>8. nested[t] # << >> /\ CallerOK(s2, ns2, thrown[t])
  BY <1>1, <1>4, <1>5, <1>6, CloseFrame
<1>9. /\ s2 \in Seq(FrameRecords) /\ ns2 \in Seq(Objects)
      /\ \A k \in 1..Len(s2) : k \in 1..Len(frames[t]) /\ s2[k] = frames[t][k]
  <2>1. /\ s2 \in Seq(FrameRecords) /\ Len(s2) = Len(frames[t]) - 1
        /\ \A k \in 1..Len(frames[t]) - 1 : s2[k] = frames[t][k]
    BY <1>1, <1>4, <1>6, FrontFacts
  <2>2. Len(frames[t]) \in Nat
    BY <1>1
  <2>3. ns2 \in Seq(Objects)
    BY <1>1, <1>6, <1>8, FrontFacts
  <2> QED BY <2>1, <2>2, <2>3
<1>10. \A k \in 1..Len(s2) : s2[k].phase = "search" => Flushed(s2[k].chain)
  BY <1>9, ChainsOfCaller
<1>11. StepTo(t, s2, ns2, thrown[t]) /\ SearchesOK(s2)
  BY <1>2, <1>3, <1>7, <1>10 DEF StepTo, SearchesOK, chainVars
<1> QED BY <1>2, <1>8, <1>9, <1>11, CallerStep

\* A frame reads the array, or begins the parts of its object.
LEMMA TopFrameStep ==
    ASSUME FormatInv, NEW t \in Callers, ReadChain(t) \/ PushObject(t)
    PROVE  FormatInv'
<1>1. /\ frames \in [Callers -> Seq(FrameRecords)] /\ frames[t] \in Seq(FrameRecords)
      /\ nested \in [Callers -> Seq(Objects)] /\ nested[t] \in Seq(Objects)
      /\ CallerOK(frames[t], nested[t], thrown[t])
  BY CallerFacts
<1>2. /\ nested = [nested EXCEPT ![t] = nested[t]]
      /\ thrown = [thrown EXCEPT ![t] = thrown[t]] /\ thrown[t] \in BOOLEAN
  BY CallerSame
<1>3. Busy(t)
  BY DEF ReadChain, PushObject, In
<1>4. PICK top \in FrameRecords : /\ top = frames[t][Len(frames[t])] /\ Frame(t) = top
                                  /\ frames[t] # << >>
                                  /\ Len(frames[t]) \in 1..Len(frames[t])
  BY <1>3, CallerFacts
<1>5. ASSUME NEW f \in FrameRecords, f.phase = "search" => Flushed(f.chain),
             NEW ns \in Seq(Objects), nested' = [nested EXCEPT ![t] = ns],
             thrown' = thrown, formats' = formats, array' = array,
             frames' = [frames EXCEPT ![t] = [frames[t] EXCEPT ![Len(frames[t])] = f]],
             CallerOK([frames[t] EXCEPT ![Len(frames[t])] = f], ns, thrown[t])
      PROVE  FormatInv'
  <2>1. PICK s2 : s2 = [frames[t] EXCEPT ![Len(frames[t])] = f]
    OBVIOUS
  <2>2. /\ s2 \in Seq(FrameRecords) /\ Len(s2) = Len(frames[t]) /\ s2[Len(frames[t])] = f
        /\ \A k \in 1..Len(frames[t]) : k < Len(frames[t]) => s2[k] = frames[t][k]
    BY <1>1, <1>4, <2>1, SetTopFacts
  <2>3. SearchesOK(s2)
    <3> SUFFICES ASSUME NEW k \in 1..Len(s2), s2[k].phase = "search"
                 PROVE  Flushed(s2[k].chain)
      BY DEF SearchesOK
    <3>1. k \in 1..Len(frames[t]) /\ (k < Len(frames[t]) \/ k = Len(frames[t]))
      BY <1>1, <2>2
    <3>2. CASE k < Len(frames[t])
      BY <2>2, <3>1, <3>2, ChainsOfCaller
    <3>3. CASE k = Len(frames[t])
      BY <1>5, <2>2, <3>3
    <3> QED BY <3>1, <3>2, <3>3
  <2>4. StepTo(t, s2, ns, thrown[t]) /\ CallerOK(s2, ns, thrown[t])
    BY <1>2, <1>5, <2>1 DEF StepTo
  <2> QED BY <1>2, <2>2, <2>3, <2>4, CallerStep
<1>6. CASE ReadChain(t)
  <2>1. top.phase = "entered" /\ ~Ignored(t, top.object)
    BY <1>4, <1>6 DEF ReadChain, In
  <2>2. array \in Seq(Formatters) /\ Flushed(array)
    BY DEF FormatInv, FormatTypeOK, ChainsOK
  <2>3. PICK f \in FrameRecords : f = [[top EXCEPT !.phase = "search"] EXCEPT !.chain = array]
    <3>1. [[top EXCEPT !.phase = "search"] EXCEPT !.chain = array] \in FrameRecords
      BY <2>2 DEF FrameRecords
    <3> QED BY <3>1
  <2>4. f.phase = "search" /\ f.object = top.object /\ f.chain = array
    BY <2>3 DEF FrameRecords
  <2>5. \A k \in 1..Len(nested[t]) : ClassOf[nested[t][k]] # ClassOf[top.object]
    BY <2>1 DEF Ignored
  <2>6. CallerOK([frames[t] EXCEPT ![Len(frames[t])] = f], nested[t], thrown[t])
    BY <1>1, <1>4, <2>1, <2>4, <2>5, SearchFrame
  <2>7. frames' = [frames EXCEPT ![t] = [frames[t] EXCEPT ![Len(frames[t])] = f]]
    <3>1. frames' = [frames EXCEPT ![t][Len(frames[t])].phase = "search",
                                   ![t][Len(frames[t])].chain = array]
      BY <1>6 DEF ReadChain
    <3> QED BY <1>1, <1>4, <2>3, <3>1
  <2>8. /\ nested' = [nested EXCEPT ![t] = nested[t]] /\ thrown' = thrown
        /\ formats' = formats /\ array' = array
    BY <1>2, <1>6 DEF ReadChain, chainVars
  <2> QED BY <1>1, <1>5, <2>2, <2>4, <2>6, <2>7, <2>8
<1>7. CASE PushObject(t)
  <2>1. top.phase = "search" /\ top.object \in Objects /\ top.chain \in Seq(Formatters)
    BY <1>4, <1>7 DEF PushObject, In, FrameRecords
  <2>2. PICK g \in ToSet(top.chain) :
           frames' = [frames EXCEPT
               ![t][Len(frames[t])] = [@ EXCEPT !.phase = "parts", !.chain = << >>,
                                   !.parts = PartsOf(g, top.object)]]
    BY <1>4, <1>7 DEF PushObject
  <2>3. g \in Formatters
    BY <2>1 DEF ToSet
  <2>4. PICK parts \in Seq(Objects) : parts = PartsOf(g, top.object)
    BY <2>1, <2>3, PartsAreObjects
  <2>5. PICK f \in FrameRecords :
           f = [top EXCEPT !.phase = "parts", !.chain = << >>, !.parts = parts]
    <3>1. << >> \in Seq(Formatters)
      OBVIOUS
    <3>2. [top EXCEPT !.phase = "parts", !.chain = << >>, !.parts = parts] \in FrameRecords
      BY <3>1 DEF FrameRecords
    <3> QED BY <3>2
  <2>6. f.phase = "parts" /\ f.object = top.object
    BY <2>5 DEF FrameRecords
  <2>7. PICK ns \in Seq(Objects) : ns = Append(nested[t], top.object)
    <3>1. Append(nested[t], top.object) \in Seq(Objects)
      BY <1>1, <2>1, AppendProperties
    <3> QED BY <3>1
  <2>8. CallerOK([frames[t] EXCEPT ![Len(frames[t])] = f], ns, thrown[t])
    BY <1>1, <1>4, <2>1, <2>6, <2>7, OpenFrame
  <2>9. frames' = [frames EXCEPT ![t] = [frames[t] EXCEPT ![Len(frames[t])] = f]]
    BY <1>1, <1>4, <2>2, <2>4, <2>5
  <2>10. /\ nested' = [nested EXCEPT ![t] = ns] /\ thrown' = thrown
         /\ formats' = formats /\ array' = array
    BY <1>4, <1>7, <2>7 DEF PushObject, chainVars
  <2> QED BY <1>5, <2>6, <2>8, <2>9, <2>10
<1> QED BY <1>6, <1>7

\* The exception leaves the outermost toString.
LEMMA CatchStep ==
    ASSUME FormatInv, NEW t \in Callers, Catch(t)
    PROVE  FormatInv'
<1>1. /\ frames[t] \in Seq(FrameRecords) /\ nested[t] \in Seq(Objects)
      /\ CallerOK(frames[t], nested[t], thrown[t])
  BY CallerFacts
<1>2. /\ frames = [frames EXCEPT ![t] = frames[t]]
      /\ nested = [nested EXCEPT ![t] = nested[t]]
  BY CallerSame
<1>3. /\ thrown' = [thrown EXCEPT ![t] = FALSE] /\ frames' = frames /\ nested' = nested
      /\ formats' = formats /\ array' = array
  BY DEF Catch, chainVars
<1>4. CallerOK(frames[t], nested[t], FALSE)
  BY <1>1 DEF CallerOK
<1>5. StepTo(t, frames[t], nested[t], FALSE)
  BY <1>2, <1>3 DEF StepTo
<1>6. SearchesOK(frames[t]) /\ FALSE \in BOOLEAN
  BY ChainsOfCaller DEF SearchesOK
<1> QED BY <1>1, <1>4, <1>5, <1>6, CallerStep

\* FormatInv is an invariant of the formatter.
THEOREM FormatInvariance == FormatSpec => []FormatInv
<1>1. FormatInv /\ [FormatNext]_formatVars => FormatInv'
  <2> SUFFICES ASSUME FormatInv, [FormatNext]_formatVars PROVE FormatInv'
    OBVIOUS
  <2>1. ASSUME NEW f \in Custom, Add(f) \/ RemoveFormat(f) PROVE FormatInv'
    BY <2>1, ChainStep
  <2>2. ASSUME NEW t \in Callers, (\E o \in Objects : Call(t, o)) \/ NextPart(t) PROVE FormatInv'
    BY <2>2, EnterStep
  <2>3. ASSUME NEW t \in Callers, ReturnThis(t) \/ ReturnText(t) \/ Throw(t) PROVE FormatInv'
    BY <2>3, ReturnFrameStep
  <2>4. ASSUME NEW t \in Callers, ReadChain(t) \/ PushObject(t) PROVE FormatInv'
    BY <2>4, TopFrameStep
  <2>5. ASSUME NEW t \in Callers, PopObject(t) \/ Unwind(t) PROVE FormatInv'
    BY <2>5, PopFrameStep
  <2>6. ASSUME NEW t \in Callers, Catch(t) PROVE FormatInv'
    BY <2>6, CatchStep
  <2>7. CASE UNCHANGED formatVars
    BY <2>7 DEF formatVars, FormatInv, FormatTypeOK, ChainsOK
  <2> QED BY <2>1, <2>2, <2>3, <2>4, <2>5, <2>6, <2>7 DEF FormatNext, Step
<1> QED BY <1>1, FormatInitial, PTL DEF FormatSpec

\* mIgnores holds exactly the objects whose parts are being formatted, whatever
\* throws where, and no two that are equal.
THEOREM CyclesCut == FormatSpec => []CutsExactlyCycles
<1>1. FormatInv => CutsExactlyCycles
  <2> SUFFICES ASSUME FormatInv, NEW t \in Callers
               PROVE  /\ {k \in 1..Len(frames[t]) : frames[t][k].phase = "parts"}
                           = 1..Len(nested[t])
                      /\ \A k \in 1..Len(nested[t]) : nested[t][k] = frames[t][k].object
                      /\ IsInjective([k \in 1..Len(nested[t]) |-> ClassOf[nested[t][k]]])
    BY Zenon DEF CutsExactlyCycles
  <2>1. /\ frames[t] \in Seq(FrameRecords) /\ nested[t] \in Seq(Objects)
        /\ CallerOK(frames[t], nested[t], thrown[t])
    BY CallerFacts
  <2>2. Len(frames[t]) \in Nat /\ Len(nested[t]) \in Nat /\ Len(nested[t]) <= Len(frames[t])
    BY <2>1 DEF CallerOK
  <2>3. \A k \in 1..Len(nested[t]) : nested[t][k] = frames[t][k].object
    BY <2>1 DEF CallerOK
  <2>4. IsInjective([k \in 1..Len(nested[t]) |-> ClassOf[nested[t][k]]])
    BY <2>1 DEF CallerOK, IsInjective
  <2>5. \A k : k \in 1..Len(nested[t]) <=> k \in 1..Len(frames[t]) /\ k <= Len(nested[t])
    BY <2>2
  <2>6. \A k \in 1..Len(frames[t]) : frames[t][k].phase = "parts" <=> k <= Len(nested[t])
    BY <2>1 DEF CallerOK
  <2> QED BY <2>3, <2>4, <2>5, <2>6
<1> QED BY <1>1, FormatInvariance, PTL

\* A search always finds a format for its object, and asks none twice, whatever
\* add and remove do meanwhile.
THEOREM SearchFinds == FormatSpec => []ChainTakesEveryObject
<1>1. FormatInv => ChainTakesEveryObject
  <2> SUFFICES ASSUME FormatInv, NEW t \in Callers, NEW k \in 1..Len(frames[t]),
                      frames[t][k].phase = "search"
               PROVE  /\ IsInjective(frames[t][k].chain)
                      /\ \E f \in ToSet(frames[t][k].chain) : belongTo(f, frames[t][k].object)
    BY Zenon DEF ChainTakesEveryObject
  <2>1. Flushed(frames[t][k].chain)
    BY ChainsOfCaller
  <2>2. PICK list \in Seq(Custom) : Once(list) /\ frames[t][k].chain = Flush(list)
    BY <2>1 DEF Flushed
  <2>3. IsInjective(frames[t][k].chain) /\ "FormatObject.A" \in ToSet(frames[t][k].chain)
    BY <2>2, FlushFacts
  <2>4. belongTo("FormatObject.A", frames[t][k].object)
    BY DEF belongTo
  <2> QED BY <2>3, <2>4
<1> QED BY <1>1, FormatInvariance, PTL
=============================================================================
