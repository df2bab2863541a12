--------------------------- MODULE DispatchProofs ---------------------------
(* The dispatcher's invariants for every configuration: any set of profile   *)
(* names, any fallback list, any number of attempts.                         *)
EXTENDS Dispatch, FiniteSetTheorems, TLAPS

Kinds == {"dispatch", "dispatch-done", "dispatch-error", "replay-done", "failed"}

\* What the code writes is a journal entry.
LEMMA RecordType ==
  ASSUME NEW kind \in Kinds, NEW c \in 0..Len(FallbackProfiles),
         NEW a \in 0..MaxAttempts, NEW error \in Causes \cup {"none"}
  PROVE  Record(kind, c, a, error) \in Entry
BY DEF Record, Entry, Kinds

\* The outer catch extends the journal and the stream, and ends the turn.
LEMMA SurfaceType ==
  ASSUME NEW written \in Seq(Entry), stream \in Seq({"start", "done", "fail"}),
         NEW cause \in Causes, Surface(written, cause)
  PROVE  /\ journal' \in Seq(Entry)
         /\ stream' \in Seq({"start", "done", "fail"})
         /\ pc' = "end"
<1>1. 0 \in 0..Len(FallbackProfiles) /\ 0 \in 0..MaxAttempts
  BY DispatchAssumption
<1>2. Record("failed", 0, 0, cause) \in Entry
  BY <1>1, RecordType DEF Kinds
<1> QED BY <1>2 DEF Surface

\* An attempt extends the journal.
LEMMA InvokeType ==
  ASSUME journal \in Seq(Entry), NEW c \in 0..Len(FallbackProfiles),
         NEW a \in 0..MaxAttempts, Invoke(c, a)
  PROVE  journal' \in Seq(Entry) /\ pc' = "transport"
<1>1. Record("dispatch", c, a, "none") \in Entry
  BY RecordType DEF Kinds
<1> QED BY <1>1 DEF Invoke

\* One step keeps the types.
LEMMA TypeStep == TypeOK /\ [Next]_vars => TypeOK'
<1> SUFFICES ASSUME TypeOK, [Next]_vars PROVE TypeOK'
  OBVIOUS
<1> USE DispatchAssumption DEF TypeOK, env, loop
<1>0. /\ cand \in 0..Len(FallbackProfiles) /\ attempt \in 0..MaxAttempts
      /\ {"transient", "fatal", "key", "unknown", "abort", "gone"} \subseteq Causes
      /\ journal \in Seq(Entry)
  BY DEF Causes, Errors
<1>1. CASE Start
  BY <1>0, <1>1, SurfaceType DEF Start
<1>2. CASE PrimaryKeyResolves
  <2>1. 0 \in 0..Len(FallbackProfiles) /\ 1 \in 0..MaxAttempts
    OBVIOUS
  <2> QED BY <1>2, <2>1, InvokeType DEF PrimaryKeyResolves
<1>3. CASE PrimaryKeyFails
  BY <1>0, <1>3, SurfaceType DEF PrimaryKeyFails
<1>4. CASE TransportSucceeds
  <2>1. /\ Record("dispatch-done", cand, attempt, "none") \in Entry
        /\ Record("replay-done", cand, attempt, "none") \in Entry
    BY <1>0, RecordType DEF Kinds
  <2> QED BY <1>4, <2>1 DEF TransportSucceeds
<1>5. ASSUME NEW error \in {"transient", "fatal"}, TransportFails(error)
      PROVE  TypeOK'
  <2> DEFINE written == Append(journal, Record("dispatch-error", cand, attempt, error))
  <2>1. written \in Seq(Entry)
    <3>1. Record("dispatch-error", cand, attempt, error) \in Entry
      BY <1>0, RecordType DEF Kinds
    <3> QED BY <1>0, <3>1
  <2> HIDE DEF written
  <2>2. CASE MoreAttempts /\ attempt' = attempt + 1 /\ journal' = written /\ pc' = "backoff"
             /\ UNCHANGED <<eligible, cand, held, stream>>
    BY <1>5, <2>1, <2>2 DEF TransportFails, MoreAttempts
  <2>3. CASE /\ \E i \in Positions : cand' = i /\ held' = (FallbackProfiles[i] \in configured)
             /\ attempt' = 1 /\ journal' = written /\ pc' = "backoff"
             /\ UNCHANGED <<eligible, stream>>
    BY <1>5, <2>1, <2>3 DEF TransportFails, Positions
  <2>4. CASE Surface(written, error) /\ UNCHANGED loop
    BY <1>0, <1>5, <2>1, <2>4, SurfaceType DEF TransportFails
  <2> QED BY <1>5, <2>2, <2>3, <2>4 DEF TransportFails, written
<1>6. CASE BackoffElapses
  BY <1>0, <1>6, InvokeType DEF BackoffElapses
<1>7. CASE BackoffAborts
  BY <1>0, <1>7, SurfaceType DEF BackoffAborts
<1>8. CASE CandidateKeyResolves
  BY <1>0, <1>8, InvokeType DEF CandidateKeyResolves
<1>9. CASE CandidateKeyFails
  <2>1. Append(journal, Record("dispatch-error", cand, attempt, "key")) \in Seq(Entry)
    <3>1. Record("dispatch-error", cand, attempt, "key") \in Entry
      BY <1>0, RecordType DEF Kinds
    <3> QED BY <1>0, <3>1
  <2> QED BY <1>0, <1>9, <2>1, SurfaceType DEF CandidateKeyFails
<1>10. CASE CandidateGone
  BY <1>0, <1>10, SurfaceType DEF CandidateGone
<1>11. CASE Abort
  BY <1>11 DEF Abort
<1>12. ASSUME NEW n \in Removable, RemoveProfile(n)
       PROVE  TypeOK'
  BY <1>12 DEF RemoveProfile
<1>13. CASE UNCHANGED vars
  BY <1>13 DEF vars
<1>14. QED
  BY <1>1, <1>2, <1>3, <1>4, <1>5, <1>6, <1>7, <1>8, <1>9, <1>10, <1>11, <1>12, <1>13
     DEF Next, Run

\* Every variable has its type in every reachable state.
THEOREM TypeCorrect == Spec => []TypeOK
<1>1. Init => TypeOK
  BY DispatchAssumption DEF Init, TypeOK
<1>2. QED BY <1>1, TypeStep, PTL DEF Spec

-----------------------------------------------------------------------------
\* A step whose new entries, if any, are not dispatches.
OnlyNotes(j, k) ==
    /\ Len(j) <= Len(k)
    /\ \A i \in 1..Len(j) : k[i] = j[i]
    /\ \A i \in (Len(j) + 1)..Len(k) : k[i].kind # "dispatch"
SameDispatches == OnlyNotes(journal, journal')

\* Such a step keeps every fact about the dispatches made so far.
LEMMA QuietStep ==
  ASSUME TypeOK, TypeOK', SameDispatches
  PROVE  /\ \A i : Dispatched(journal', i) <=> Dispatched(journal, i)
         /\ \A i : Dispatched(journal, i) => journal'[i] = journal[i]
         /\ Calls(journal') = Calls(journal)
         /\ RetryOnlyAfterTransient => RetryOnlyAfterTransient'
         /\ eligible' = eligible /\ FallbackOrder => FallbackOrder'
<1>1. /\ DOMAIN journal = 1..Len(journal) /\ DOMAIN journal' = 1..Len(journal')
      /\ Len(journal) \in Nat /\ Len(journal') \in Nat
  BY DEF TypeOK
<1>2. \A i : Dispatched(journal', i) <=> Dispatched(journal, i)
  BY <1>1 DEF SameDispatches, OnlyNotes, Dispatched
<1>3. \A i : Dispatched(journal, i) => journal'[i] = journal[i]
  BY <1>1 DEF SameDispatches, OnlyNotes, Dispatched
<1>4. Calls(journal') = Calls(journal)
  <2>1. {i \in DOMAIN journal' : journal'[i].kind = "dispatch"}
        = {i \in DOMAIN journal : journal[i].kind = "dispatch"}
    BY <1>1, <1>2 DEF Dispatched
  <2> QED BY <2>1 DEF Calls
<1>5. RetryOnlyAfterTransient => RetryOnlyAfterTransient'
  BY <1>1, <1>2 DEF RetryOnlyAfterTransient, SameDispatches, OnlyNotes, Dispatched
<1>6. ASSUME eligible' = eligible, FallbackOrder
      PROVE  FallbackOrder'
  <2>1. \A j \in DOMAIN journal' : Dispatched(journal', j) =>
          j \in DOMAIN journal /\ \A i \in 1..j : journal'[i] = journal[i]
    BY <1>1, <1>2 DEF SameDispatches, OnlyNotes, Dispatched
  <2> QED BY <1>1, <1>2, <1>3, <1>6, <2>1 DEF FallbackOrder
<1> QED BY <1>2, <1>3, <1>4, <1>5, <1>6

\* Writing an entry other than a dispatch is such a step.
LEMMA NoteAppended ==
  ASSUME NEW j \in Seq(Entry), NEW k \in Seq(Entry), OnlyNotes(j, k),
         NEW e \in Entry, e.kind # "dispatch"
  PROVE  OnlyNotes(j, Append(k, e))
BY DEF OnlyNotes

\* So is writing nothing, and so is the outer catch.
LEMMA NothingWritten == ASSUME NEW j \in Seq(Entry) PROVE OnlyNotes(j, j)
BY DEF OnlyNotes

\* Nor does the outer catch write a dispatch.
LEMMA SurfaceIsQuiet ==
  ASSUME journal \in Seq(Entry), NEW written \in Seq(Entry), OnlyNotes(journal, written),
         NEW cause \in Causes, Surface(written, cause)
  PROVE  SameDispatches
<1>1. /\ Record("failed", 0, 0, cause) \in Entry
      /\ Record("failed", 0, 0, cause).kind # "dispatch"
  <2>1. 0 \in 0..Len(FallbackProfiles) /\ 0 \in 0..MaxAttempts
    BY DispatchAssumption
  <2> QED BY <2>1, RecordType DEF Kinds, Record
<1> QED BY <1>1, NoteAppended DEF Surface, SameDispatches

\* The number of calls is a number.
LEMMA CallsNat == ASSUME NEW j \in Seq(Entry) PROVE Calls(j) \in Nat
<1>1. IsFiniteSet(1..Len(j))
  BY FS_Interval
<1>2. {i \in DOMAIN j : j[i].kind = "dispatch"} \subseteq 1..Len(j)
  OBVIOUS
<1> QED BY <1>1, <1>2, FS_Subset, FS_CardinalityType DEF Calls

\* One more dispatch is one more call.
LEMMA CallCounted ==
  ASSUME TypeOK, NEW c \in 0..Len(FallbackProfiles), NEW a \in 0..MaxAttempts,
         Invoke(c, a)
  PROVE  /\ Calls(journal) \in Nat
         /\ Calls(journal') = Calls(journal) + 1
<1> DEFINE made(j) == {i \in DOMAIN j : j[i].kind = "dispatch"}
<1>1. /\ journal \in Seq(Entry) /\ Record("dispatch", c, a, "none") \in Entry
      /\ Record("dispatch", c, a, "none").kind = "dispatch"
  BY RecordType DEF TypeOK, Kinds, Record
<1>2. IsFiniteSet(made(journal))
  <2>1. IsFiniteSet(1..Len(journal))
    BY <1>1, FS_Interval
  <2>2. made(journal) \subseteq 1..Len(journal)
    BY <1>1
  <2> QED BY <2>1, <2>2, FS_Subset
<1>3. made(journal') = made(journal) \cup {Len(journal) + 1}
  BY <1>1 DEF Invoke
<1>4. Len(journal) + 1 \notin made(journal)
  BY <1>1
<1> QED BY <1>2, <1>3, <1>4, FS_CardinalityType, FS_AddElement DEF Calls

-----------------------------------------------------------------------------
\* Any failure that ends the turn keeps the invariant.
LEMMA SurfaceStep ==
  ASSUME IInv, TypeOK', pc # "end", UNCHANGED loop,
         NEW written \in Seq(Entry), OnlyNotes(journal, written),
         NEW cause \in Causes, Surface(written, cause)
  PROVE  IInv'
<1> USE DEF IInv, loop
<1>1. pc' = "end" /\ stream' = <<"fail">>
  <2>1. stream = <<>>
    BY DEF OneTerminal
  <2>2. Append(<<>>, "fail") = <<"fail">>
    OBVIOUS
  <2> QED BY <2>1, <2>2 DEF Surface
<1>2. SameDispatches
  BY SurfaceIsQuiet DEF TypeOK
<1>3. OneTerminal' /\ LoopPosition'
  BY <1>1 DEF OneTerminal, LoopPosition, Before, Between
<1>4. NothingAhead'
  BY <1>1, <1>2, QuietStep DEF NothingAhead, Between, Dispatched, TypeOK
<1>5. BehindTried'
  BY <1>2, QuietStep DEF BehindTried, Dispatched
<1>6. Calls(journal)' <= Used'
  <2>1. Calls(journal') = Calls(journal)
    BY <1>2, QuietStep
  <2>2. Used <= Used'
    BY <1>1, DispatchAssumption DEF Used, Slot, Place, Before, Between, TypeOK
  <2>3. Used \in Int /\ Used' \in Int
    BY DispatchAssumption DEF Used, Slot, Place, TypeOK
  <2>4. Calls(journal) \in Nat
    BY CallsNat DEF TypeOK
  <2> QED BY <2>1, <2>2, <2>3, <2>4
<1> QED BY <1>2, <1>3, <1>4, <1>5, <1>6, QuietStep

\* So does any dispatch of the attempt the loop stands at.
LEMMA InvokeStep ==
  ASSUME IInv, TypeOK', pc \in {"primaryKey", "backoff", "candidateKey"},
         Invoke(cand, attempt), UNCHANGED <<cand, attempt, stream>>,
         pc = "primaryKey" \/ eligible' = eligible
  PROVE  IInv'
<1> DEFINE e == Record("dispatch", cand, attempt, "none")
<1> USE DEF IInv
<1>1. /\ journal \in Seq(Entry) /\ e \in Entry /\ journal' = Append(journal, e)
      /\ e.kind = "dispatch" /\ e.cand = cand /\ e.attempt = attempt
      /\ cand \in 0..Len(FallbackProfiles) /\ attempt \in 1..MaxAttempts
      /\ pc' = "transport"
  BY RecordType, DispatchAssumption DEF Invoke, TypeOK, Kinds, Record
<1> HIDE DEF e
<1>2. /\ DOMAIN journal = 1..Len(journal) /\ DOMAIN journal' = 1..(Len(journal) + 1)
      /\ Len(journal) \in Nat
      /\ \A i \in 1..Len(journal) : journal'[i] = journal[i]
      /\ journal'[Len(journal) + 1] = e
  BY <1>1
<1>3. /\ \A i \in 1..Len(journal) : Dispatched(journal', i) <=> Dispatched(journal, i)
      /\ Dispatched(journal', Len(journal) + 1)
  BY <1>1, <1>2 DEF Dispatched
<1>4. OneTerminal'
  BY <1>1 DEF OneTerminal
<1>5. LoopPosition'
  BY <1>1, <1>2, <1>3 DEF LoopPosition, Before, Between
<1>6. NothingAhead'
  BY <1>1, <1>2, <1>3 DEF NothingAhead, Between
<1>7. BehindTried'
  BY <1>1, <1>2, <1>3 DEF BehindTried, LoopPosition, Before
<1>8. Calls(journal)' <= Used'
  <2>1. Calls(journal) \in Nat /\ Calls(journal') = Calls(journal) + 1
    BY <1>1, CallCounted, DispatchAssumption DEF TypeOK
  <2>2. Used' = Used + 1 /\ Used \in Int
    BY <1>1, DispatchAssumption DEF Used, Slot, Place, LoopPosition, Before, Between, TypeOK
  <2> QED BY <2>1, <2>2
<1>9. RetryOnlyAfterTransient'
  BY <1>1, <1>2, <1>3 DEF RetryOnlyAfterTransient, LoopPosition, Before, Between
<1>10. FallbackOrder'
  <2>1. ASSUME NEW i \in DOMAIN journal', NEW j \in DOMAIN journal', i < j,
               Dispatched(journal', i), Dispatched(journal', j)
        PROVE  \/ journal'[i].cand < journal'[j].cand
               \/ /\ journal'[i].cand = journal'[j].cand
                  /\ journal'[i].attempt < journal'[j].attempt
    <3>1. i \in 1..Len(journal)
      BY <1>2, <2>1
    <3>2. CASE j \in 1..Len(journal)
      BY <1>2, <1>3, <2>1, <3>1, <3>2 DEF FallbackOrder
    <3>3. CASE j = Len(journal) + 1
      BY <1>1, <1>2, <1>3, <2>1, <3>1, <3>3
         DEF NothingAhead, LoopPosition, Before, Between
    <3> QED BY <1>2, <2>1, <3>2, <3>3
  <2>2. ASSUME NEW j \in DOMAIN journal', Dispatched(journal', j), journal'[j].cand > 0
        PROVE  /\ \E i \in 1..(j - 1) : /\ Dispatched(journal', i)
                                        /\ journal'[i].cand = 0
                                        /\ journal'[i].attempt = MaxAttempts
               /\ \A p \in eligible' : p < journal'[j].cand =>
                     \E i \in 1..(j - 1) : Dispatched(journal', i) /\ journal'[i].cand = p
    <3>0. eligible' = eligible
      BY <1>1, <1>2, <2>2 DEF LoopPosition, Before
    <3>1. CASE j \in 1..Len(journal)
      <4>1. Dispatched(journal, j) /\ journal[j].cand > 0 /\ journal'[j] = journal[j]
        BY <1>2, <1>3, <2>2, <3>1
      <4>2. \A i \in 1..(j - 1) : i \in 1..Len(journal)
        BY <1>2, <3>1
      <4> QED BY <1>2, <1>3, <3>0, <3>1, <4>1, <4>2 DEF FallbackOrder
    <3>2. CASE j = Len(journal) + 1
      <4>1. cand > 0 /\ journal'[j].cand = cand /\ 1..(j - 1) = 1..Len(journal)
        BY <1>1, <1>2, <2>2, <3>2
      <4> QED BY <1>2, <1>3, <3>0, <4>1 DEF BehindTried
    <3> QED BY <1>2, <2>2, <3>1, <3>2
  <2> QED BY <2>1, <2>2 DEF FallbackOrder
<1> QED BY <1>4, <1>5, <1>6, <1>7, <1>8, <1>9, <1>10

\* A later candidate lies behind every attempt of an earlier one.
LEMMA LaterPlace ==
  ASSUME NEW c \in Nat, NEW d \in Nat, d > c, NEW a \in 1..MaxAttempts
  PROVE  /\ Place(c, a) <= Place(d, 1) - 1
         /\ Place(c, a) \in Int /\ Place(d, 1) - 1 \in Int
BY DispatchAssumption DEF Place

\* A transient failure that leaves something to try keeps the invariant.
LEMMA BackoffStep ==
  ASSUME IInv, TypeOK', pc = "transport", pc' = "backoff", UNCHANGED <<eligible, stream>>,
         journal' = Append(journal, Record("dispatch-error", cand, attempt, "transient")),
         \/ MoreAttempts /\ attempt' = attempt + 1 /\ cand' = cand
         \/ ~MoreAttempts /\ attempt' = 1 /\ cand' \in Positions /\ NextPosition(cand', cand)
  PROVE  IInv'
<1> DEFINE e == Record("dispatch-error", cand, attempt, "transient")
<1> USE DEF IInv
<1>1. /\ journal \in Seq(Entry) /\ e \in Entry /\ journal' = Append(journal, e)
      /\ e.kind = "dispatch-error" /\ e.error = "transient"
      /\ cand \in 0..Len(FallbackProfiles) /\ cand' \in 0..Len(FallbackProfiles)
      /\ attempt \in 1..MaxAttempts /\ attempt' \in 1..MaxAttempts
      /\ MaxAttempts \in Nat /\ Len(FallbackProfiles) \in Nat
  BY RecordType, DispatchAssumption DEF TypeOK, Kinds, Record, Causes, Errors
<1> HIDE DEF e
<1>2. SameDispatches
  <2>1. OnlyNotes(journal, journal)
    BY <1>1, NothingWritten
  <2> QED BY <1>1, <2>1, NoteAppended DEF SameDispatches
<1>3. /\ Len(journal') = Len(journal) + 1 /\ journal'[Len(journal')] = e
      /\ Len(journal) \in Nat
  BY <1>1
<1>4. /\ \A i : Dispatched(journal', i) <=> Dispatched(journal, i)
      /\ \A i : Dispatched(journal, i) => i \in DOMAIN journal /\ i \in DOMAIN journal'
      /\ \A i : Dispatched(journal, i) => journal'[i] = journal[i]
  BY <1>2, QuietStep DEF Dispatched
<1>5. \/ cand' = cand /\ attempt' = attempt + 1 /\ cand = 0
      \/ /\ cand' > cand /\ attempt' = 1 /\ (cand = 0 => attempt = MaxAttempts)
         /\ \A p \in eligible : p < cand' => p <= cand
  <2>1. CASE MoreAttempts /\ attempt' = attempt + 1 /\ cand' = cand
    BY <1>1, <2>1 DEF MoreAttempts
  <2>2. CASE ~MoreAttempts /\ attempt' = 1 /\ cand' \in Positions /\ NextPosition(cand', cand)
    BY <1>1, <2>2 DEF MoreAttempts, NextPosition, Later, TypeOK, Positions
  <2> QED BY <2>1, <2>2
<1>6. OneTerminal' /\ LoopPosition'
  BY <1>1, <1>3, <1>5 DEF OneTerminal, LoopPosition, Before, Between
<1>7. NothingAhead'
  <2>1. \A i : Dispatched(journal, i) => /\ journal[i].cand \in 0..Len(FallbackProfiles)
                                         /\ journal[i].attempt \in 0..MaxAttempts
    <3>1. ASSUME NEW i, Dispatched(journal, i)
          PROVE  journal[i] \in Entry
      BY <1>1, <3>1 DEF Dispatched
    <3> QED BY <3>1 DEF Entry
  <2> QED BY <1>1, <1>4, <1>5, <2>1 DEF NothingAhead, Between
<1>8. BehindTried'
  <2>1. ASSUME cand' > 0
        PROVE  \E i \in DOMAIN journal' : /\ Dispatched(journal', i)
                                          /\ journal'[i].cand = 0
                                          /\ journal'[i].attempt = MaxAttempts
    BY <1>1, <1>4, <1>5, <2>1 DEF BehindTried, LoopPosition
  <2>2. ASSUME NEW p \in eligible', cand' > 0, p < cand'
        PROVE  \E i \in DOMAIN journal' : Dispatched(journal', i) /\ journal'[i].cand = p
    <3>1. p \in eligible /\ p \in Nat /\ p > 0 /\ p <= cand
      BY <1>1, <1>5, <2>2 DEF TypeOK, Positions
    <3>2. CASE p = cand
      BY <1>4, <3>2 DEF LoopPosition
    <3>3. CASE p < cand
      BY <1>1, <1>4, <3>1, <3>3 DEF BehindTried
    <3> QED BY <1>1, <3>1, <3>2, <3>3
  <2> QED BY <2>1, <2>2 DEF BehindTried
<1>9. Calls(journal)' <= Used'
  <2>1. Calls(journal') = Calls(journal) /\ Calls(journal) \in Nat
    BY <1>1, <1>2, QuietStep, CallsNat
  <2>2. Used <= Used' /\ Used \in Int /\ Used' \in Int
    <3>1. Used = Slot /\ Used' = Slot' - 1
      BY DEF Used, Before, Between
    <3>2. CASE cand' = cand /\ attempt' = attempt + 1 /\ cand = 0
      BY <1>1, <3>1, <3>2 DEF Slot, Place
    <3>3. CASE cand' > cand /\ attempt' = 1
      <4>1. cand \in Nat /\ cand' \in Nat /\ cand' > cand /\ attempt' = 1
        BY <1>1, <3>3
      <4>2. /\ Place(cand, attempt) <= Place(cand', 1) - 1
            /\ Place(cand, attempt) \in Int /\ Place(cand', 1) - 1 \in Int
        BY <1>1, <4>1, LaterPlace
      <4> QED BY <3>1, <4>1, <4>2 DEF Slot
    <3> QED BY <1>5, <3>2, <3>3
  <2> QED BY <2>1, <2>2
<1> QED BY <1>2, <1>6, <1>7, <1>8, <1>9, QuietStep

\* A step that touches neither loop nor journal keeps the invariant.
LEMMA IdleStep ==
  ASSUME IInv, TypeOK', UNCHANGED <<loop, journal, stream>>,
         \/ pc' = pc
         \/ pc = "start" /\ pc' = "primaryKey"
         \/ pc = "backoff" /\ pc' = "candidateKey" /\ cand # 0
  PROVE  IInv'
<1>1. Used' = Used
  BY DEF Used, Slot, Place, Before, Between, loop
<1>2. OneTerminal' /\ LoopPosition' /\ NothingAhead' /\ BehindTried'
  BY DEF IInv, OneTerminal, LoopPosition, NothingAhead, BehindTried, Before, Between,
         Dispatched, loop, TypeOK
<1>3. RetryOnlyAfterTransient' /\ FallbackOrder'
  BY DEF IInv, RetryOnlyAfterTransient, FallbackOrder, Dispatched, loop
<1> QED BY <1>1, <1>2, <1>3 DEF IInv, Calls

\* The invariant holds initially and every step keeps it.
LEMMA InitInv == Init => IInv
<1> SUFFICES ASSUME Init PROVE IInv
  OBVIOUS
<1>1. TypeOK
  BY DispatchAssumption DEF Init, TypeOK
<1>2. OneTerminal /\ LoopPosition /\ NothingAhead /\ BehindTried
  BY DEF Init, OneTerminal, LoopPosition, NothingAhead, BehindTried, Before, Between, Dispatched
<1>3. RetryOnlyAfterTransient /\ FallbackOrder
  BY DEF Init, RetryOnlyAfterTransient, FallbackOrder, Dispatched
<1>4. Calls(journal) <= Used
  <2>1. {i \in DOMAIN journal : journal[i].kind = "dispatch"} = {}
    BY DEF Init
  <2>2. Calls(journal) = 0
    BY <2>1, FS_EmptySet DEF Calls
  <2>3. Used = 0
    BY DEF Init, Used, Before
  <2> QED BY <2>2, <2>3
<1> QED BY <1>1, <1>2, <1>3, <1>4 DEF IInv

\* Every step keeps the inductive invariant.
LEMMA StepInv == IInv /\ [Next]_vars => IInv'
<1> SUFFICES ASSUME IInv, [Next]_vars PROVE IInv'
  OBVIOUS
<1>0. /\ TypeOK /\ TypeOK'
      /\ journal \in Seq(Entry) /\ OnlyNotes(journal, journal)
      /\ {"transient", "fatal", "key", "unknown", "abort", "gone"} \subseteq Causes
  BY TypeStep, NothingWritten DEF IInv, TypeOK, Causes, Errors
<1>a. ASSUME NEW error \in Errors
      PROVE  LET written == Append(journal, Record("dispatch-error", cand, attempt, error))
             IN  written \in Seq(Entry) /\ OnlyNotes(journal, written)
  <2>1. /\ Record("dispatch-error", cand, attempt, error) \in Entry
        /\ Record("dispatch-error", cand, attempt, error).kind # "dispatch"
    BY <1>0, <1>a, RecordType, DispatchAssumption DEF TypeOK, Kinds, Causes, Record
  <2> QED BY <1>0, <2>1, NoteAppended
<1>1. CASE Start
  BY <1>0, <1>1, SurfaceStep, IdleStep DEF Start, env
<1>2. CASE PrimaryKeyResolves
  <2>1. cand = 0 /\ attempt = 1
    BY <1>2 DEF IInv, LoopPosition, Before, PrimaryKeyResolves
  <2> QED BY <1>0, <1>2, <2>1, InvokeStep DEF PrimaryKeyResolves
<1>3. CASE PrimaryKeyFails
  BY <1>0, <1>3, SurfaceStep DEF PrimaryKeyFails
<1>4. CASE TransportSucceeds
  <2>1. Record("dispatch-done", cand, attempt, "none") \in Entry
        /\ Record("replay-done", cand, attempt, "none") \in Entry
        /\ Record("dispatch-done", cand, attempt, "none").kind # "dispatch"
        /\ Record("replay-done", cand, attempt, "none").kind # "dispatch"
    BY <1>0, RecordType, DispatchAssumption DEF TypeOK, Kinds, Record
  <2>2. SameDispatches
    <3>1. OnlyNotes(journal, Append(journal, Record("dispatch-done", cand, attempt, "none")))
      BY <1>0, <2>1, NoteAppended
    <3>2. Append(journal, Record("dispatch-done", cand, attempt, "none")) \in Seq(Entry)
      BY <1>0, <2>1
    <3> QED BY <1>0, <1>4, <2>1, <3>1, <3>2, NoteAppended DEF SameDispatches, TransportSucceeds
  <2>3. stream' = <<"start", "done">>
    <3>1. stream = <<>>
      BY <1>4 DEF IInv, OneTerminal, TransportSucceeds
    <3>2. <<>> \o <<"start", "done">> = <<"start", "done">>
      OBVIOUS
    <3> QED BY <1>4, <3>1, <3>2 DEF TransportSucceeds
  <2>4. OneTerminal' /\ LoopPosition'
    BY <1>4, <2>3 DEF IInv, OneTerminal, LoopPosition, Before, Between, TransportSucceeds, loop
  <2>5. NothingAhead' /\ BehindTried'
    BY <1>0, <1>4, <2>2, QuietStep
       DEF IInv, NothingAhead, BehindTried, Between, Dispatched, TransportSucceeds, loop
  <2>6. Calls(journal)' <= Used'
    <3>1. Calls(journal') = Calls(journal)
      BY <1>0, <2>2, QuietStep
    <3>2. Used' = Used
      BY <1>4 DEF Used, Slot, Place, Before, Between, TransportSucceeds, loop
    <3> QED BY <3>1, <3>2 DEF IInv
  <2>7. eligible' = eligible
    BY <1>4 DEF TransportSucceeds, loop
  <2> QED BY <1>0, <2>2, <2>4, <2>5, <2>6, <2>7, QuietStep DEF IInv
<1>5. ASSUME NEW error \in {"transient", "fatal"}, TransportFails(error)
      PROVE  IInv'
  <2>1. CASE pc' = "backoff"
    BY <1>0, <1>5, <2>1, BackoffStep DEF TransportFails, Retryable, Surface
  <2>2. CASE pc' # "backoff"
    BY <1>0, <1>a, <1>5, <2>2, SurfaceStep DEF TransportFails, Errors
  <2> QED BY <2>1, <2>2
<1>6. CASE BackoffElapses
  BY <1>0, <1>6, InvokeStep, IdleStep DEF BackoffElapses, loop
<1>7. CASE BackoffAborts
  BY <1>0, <1>7, SurfaceStep DEF BackoffAborts
<1>8. CASE CandidateKeyResolves
  BY <1>0, <1>8, InvokeStep DEF CandidateKeyResolves, loop
<1>9. CASE CandidateKeyFails
  BY <1>0, <1>a, <1>9, SurfaceStep DEF CandidateKeyFails, Errors
<1>10. CASE CandidateGone
  BY <1>0, <1>10, SurfaceStep DEF CandidateGone
<1>11. CASE Abort
  BY <1>0, <1>11, IdleStep DEF Abort
<1>12. ASSUME NEW n \in Removable, RemoveProfile(n)
       PROVE  IInv'
  BY <1>0, <1>12, IdleStep DEF RemoveProfile
<1>13. CASE UNCHANGED vars
  BY <1>0, <1>13, IdleStep DEF vars, loop
<1>14. QED
  BY <1>1, <1>2, <1>3, <1>4, <1>5, <1>6, <1>7, <1>8, <1>9, <1>10, <1>11, <1>12, <1>13
     DEF Next, Run

-----------------------------------------------------------------------------
\* The inductive invariant is one: it holds in every reachable state.
THEOREM Invariance == Spec => []IInv
BY InitInv, StepInv, PTL DEF Spec

\* One terminal event ends every turn, whatever is configured and removed.
THEOREM EndsOnce == Spec => []OneTerminal
BY Invariance, PTL DEF IInv

\* No turn exceeds its attempts: maxAttempts for the primary, one per fallback.
THEOREM BoundedCalls == Spec => []CallBudget
<1>1. IInv => CallBudget
  <2> SUFFICES ASSUME IInv PROVE CallBudget
    OBVIOUS
  <2>1. Used <= MaxAttempts + Len(FallbackProfiles) /\ Used \in Int
    BY DispatchAssumption DEF IInv, TypeOK, Used, Slot, Place, Before, Between
  <2>2. Calls(journal) \in Nat
    BY CallsNat DEF IInv, TypeOK
  <2> QED BY <2>1, <2>2, DispatchAssumption DEF IInv, CallBudget
<1>2. QED BY <1>1, Invariance, PTL

\* Nothing is called again unless its last call failed transiently.
THEOREM OnlyTransientRetries == Spec => []RetryOnlyAfterTransient
BY Invariance, PTL DEF IInv

\* The attempts follow the order the configuration gives.
THEOREM OrderKept == Spec => []FallbackOrder
BY Invariance, PTL DEF IInv

-----------------------------------------------------------------------------
\* Between attempts, a fallback that was missing when it was read is one of the
\* turn's and is missing still: profiles only disappear during a turn.
Missing ==
    /\ pc \in {"start", "primaryKey", "transport"} => held
    /\ Between /\ ~held => cand \in eligible /\ FallbackProfiles[cand] \notin configured

\* A turn that surfaces an error writes it last.
LEMMA SurfaceSays ==
  ASSUME TypeOK, NEW written \in Seq(Entry), NEW c \in Causes, Surface(written, c)
  PROVE  journal'[Len(journal')].error = c
<1>1. Record("failed", 0, 0, c) \in Entry /\ Record("failed", 0, 0, c).error = c
  BY RecordType, DispatchAssumption DEF TypeOK, Kinds, Record
<1> QED BY <1>1 DEF Surface

\* Missing fallbacks, and the turn that ends for want of further ones.
LEMMA ExhaustStep ==
  IInv /\ IInv' /\ Missing /\ ExhaustsFallbacks /\ [Next]_vars => Missing' /\ ExhaustsFallbacks'
<1> SUFFICES ASSUME IInv, IInv', Missing, ExhaustsFallbacks, [Next]_vars
             PROVE  Missing' /\ ExhaustsFallbacks'
  OBVIOUS
<1>0. /\ TypeOK /\ TypeOK' /\ journal \in Seq(Entry) /\ OnlyNotes(journal, journal)
      /\ OneTerminal /\ OneTerminal' /\ LoopPosition /\ BehindTried
      /\ {"transient", "fatal", "key", "unknown", "abort", "gone"} \subseteq Causes
  BY NothingWritten DEF IInv, TypeOK, Causes, Errors
<1>1. Missing'
  <2>1. CASE UNCHANGED <<cand, eligible, held>> /\ configured' \subseteq configured
             /\ (pc' \in {"start", "primaryKey", "transport"} => held)
             /\ (pc' \in {"backoff", "candidateKey"} => pc \in {"backoff", "candidateKey"} \/ held)
    BY <2>1 DEF Missing, Between
  <2>2. ASSUME NEW error \in {"transient", "fatal"}, TransportFails(error)
        PROVE  Missing'
    <3>0. pc = "transport" /\ held /\ configured' = configured
      BY <2>2 DEF TransportFails, Missing, env
    <3>1. CASE pc' = "backoff" /\ held' = held
      BY <3>0, <3>1 DEF Missing, Between
    <3>2. CASE pc' = "end"
      BY <3>2 DEF Missing, Between
    <3>3. CASE \E i \in Positions : /\ NextPosition(i, cand) /\ cand' = i /\ eligible' = eligible
                                    /\ held' = (FallbackProfiles[i] \in configured)
                                    /\ pc' = "backoff"
      BY <3>0, <3>3 DEF NextPosition, Later, Missing, Between
    <3>4. \/ pc' = "backoff" /\ held' = held
          \/ pc' = "end"
          \/ \E i \in Positions : /\ NextPosition(i, cand) /\ cand' = i /\ eligible' = eligible
                                   /\ held' = (FallbackProfiles[i] \in configured)
                                   /\ pc' = "backoff"
      BY <2>2, Zenon DEF TransportFails, Surface
    <3> QED BY <3>1, <3>2, <3>3, <3>4, Zenon
  <2>3. CASE PrimaryKeyResolves
    BY <2>3 DEF PrimaryKeyResolves, Invoke, Missing, Between
  <2>4. CASE BackoffElapses
    <3>1. held \/ cand # 0
      BY <1>0, <2>4 DEF BackoffElapses, Missing, Between, TypeOK, Positions
    <3> QED BY <2>1, <2>4, <3>1 DEF BackoffElapses, Invoke, Missing, env, loop
  <2>5. CASE CandidateKeyResolves
    BY <2>1, <2>5 DEF CandidateKeyResolves, Invoke, env, loop
  <2>6. CASE Start \/ PrimaryKeyFails \/ TransportSucceeds \/ BackoffAborts \/ CandidateKeyFails
             \/ CandidateGone
    BY <2>1, <2>6
       DEF Start, PrimaryKeyFails, TransportSucceeds, BackoffAborts, CandidateKeyFails,
           CandidateGone, Surface, Missing, env, loop
  <2>7. CASE Abort \/ UNCHANGED vars
    BY <2>1, <2>7 DEF Abort, Missing, loop, vars
  <2>8. ASSUME NEW n \in Removable, RemoveProfile(n)
        PROVE  Missing'
    BY <2>1, <2>8 DEF RemoveProfile, Missing, loop
  <2> QED BY <2>2, <2>3, <2>4, <2>5, <2>6, <2>7, <2>8 DEF Next, Run
<1>2. ExhaustsFallbacks'
  <2>1. CASE pc' # "end"
    BY <2>1 DEF ExhaustsFallbacks
  <2>2. CASE UNCHANGED vars
    BY <2>2 DEF ExhaustsFallbacks, Called, vars, loop, Dispatched
  <2>3. CASE stream' # <<"fail">>
    BY <2>3 DEF ExhaustsFallbacks
  <2>4. ASSUME NEW written \in Seq(Entry), NEW c \in {"fatal", "key", "unknown", "abort"},
               Surface(written, c)
        PROVE  ExhaustsFallbacks'
    BY <1>0, <2>4, SurfaceSays DEF ExhaustsFallbacks
  <2>5. ASSUME TransportFails("transient"), pc' = "end"
        PROVE  ExhaustsFallbacks'
    <3> DEFINE written == Append(journal, Record("dispatch-error", cand, attempt, "transient"))
    <3>1. /\ Record("dispatch-error", cand, attempt, "transient") \in Entry
          /\ Record("dispatch-error", cand, attempt, "transient").kind # "dispatch"
      BY <1>0, RecordType, DispatchAssumption DEF TypeOK, Kinds, Record
    <3>2. written \in Seq(Entry) /\ OnlyNotes(journal, written)
      BY <1>0, <3>1, NoteAppended
    <3>3. /\ Surface(written, "transient") /\ UNCHANGED loop
          /\ pc = "transport" /\ ~MoreAttempts /\ Later(cand) = {}
      BY <2>5 DEF TransportFails, Retryable
    <3> HIDE DEF written
    <3>4. SameDispatches
      BY <1>0, <3>2, <3>3, SurfaceIsQuiet
    <3>5. \A p \in eligible : Called(p)
      <4>1. \A p \in eligible : p <= cand /\ p > 0 /\ p \in Int /\ cand \in Int
        BY <1>0, <3>3 DEF Later, TypeOK, Positions
      <4> QED BY <1>0, <3>3, <4>1 DEF LoopPosition, BehindTried, Called
    <3>6. \A i : Dispatched(journal, i) => Dispatched(journal', i) /\ journal'[i] = journal[i]
      BY <1>0, <3>4, QuietStep
    <3>7. journal'[Len(journal')].error = "transient"
      BY <1>0, <3>2, <3>3, SurfaceSays
    <3> QED BY <3>3, <3>5, <3>6, <3>7 DEF ExhaustsFallbacks, Called, Dispatched, loop
  <2>6. CASE CandidateGone
    <3>1. cand \in eligible /\ FallbackProfiles[cand] \notin configured
      BY <2>6 DEF CandidateGone, Missing, Between
    <3>2. FallbackProfiles[cand] \notin configured' /\ UNCHANGED <<eligible, cand>>
      BY <2>6, <3>1 DEF CandidateGone, env, loop
    <3>3. SameDispatches
      BY <1>0, <2>6, SurfaceIsQuiet DEF CandidateGone
    <3>4. \A i : Dispatched(journal, i) => Dispatched(journal', i) /\ journal'[i] = journal[i]
      BY <1>0, <3>3, QuietStep
    <3>5. \A p \in eligible : p < cand => Called(p)
      BY <1>0, <2>6 DEF CandidateGone, LoopPosition, BehindTried, Called
    <3>6. journal'[Len(journal')].error = "gone"
      BY <1>0, <2>6, SurfaceSays DEF CandidateGone
    <3> QED BY <3>1, <3>2, <3>4, <3>5, <3>6 DEF ExhaustsFallbacks, Called, Dispatched
  <2>7. CASE Start
    BY <1>0, <2>1, <2>4, <2>7 DEF Start
  <2>8. CASE PrimaryKeyResolves
    BY <2>1, <2>8 DEF PrimaryKeyResolves, Invoke
  <2>9. CASE PrimaryKeyFails
    BY <1>0, <2>4, <2>9 DEF PrimaryKeyFails
  <2>10. CASE TransportSucceeds
    <3>1. stream = <<>> /\ <<>> \o <<"start", "done">> = <<"start", "done">>
      BY <1>0, <2>10 DEF TransportSucceeds, OneTerminal
    <3>2. stream' = <<"start", "done">>
      BY <2>10, <3>1 DEF TransportSucceeds
    <3>3. <<"start", "done">> # <<"fail">>
      OBVIOUS
    <3> QED BY <2>3, <3>2, <3>3
  <2>11. ASSUME TransportFails("fatal")
         PROVE  ExhaustsFallbacks'
    <3>1. Record("dispatch-error", cand, attempt, "fatal") \in Entry
      BY <1>0, RecordType, DispatchAssumption DEF TypeOK, Kinds
    <3>2. Append(journal, Record("dispatch-error", cand, attempt, "fatal")) \in Seq(Entry)
      BY <1>0, <3>1
    <3> QED BY <2>4, <2>11, <3>2 DEF TransportFails, Retryable
  <2>12. CASE BackoffElapses
    BY <2>1, <2>12 DEF BackoffElapses, Invoke
  <2>13. CASE BackoffAborts
    BY <1>0, <2>4, <2>13 DEF BackoffAborts
  <2>14. CASE CandidateKeyResolves
    BY <2>1, <2>14 DEF CandidateKeyResolves, Invoke
  <2>15. CASE CandidateKeyFails
    <3>1. Record("dispatch-error", cand, attempt, "key") \in Entry
      BY <1>0, RecordType, DispatchAssumption DEF TypeOK, Kinds
    <3>2. Append(journal, Record("dispatch-error", cand, attempt, "key")) \in Seq(Entry)
      BY <1>0, <3>1
    <3> QED BY <2>4, <2>15, <3>2 DEF CandidateKeyFails
  <2>16. CASE Abort
    BY <1>0, <2>16 DEF Abort, ExhaustsFallbacks, Called, Dispatched, loop
  <2>17. ASSUME NEW n \in Removable, RemoveProfile(n)
         PROVE  ExhaustsFallbacks'
    BY <2>1, <2>17 DEF RemoveProfile
  <2> QED
    BY <2>1, <2>2, <2>5, <2>6, <2>7, <2>8, <2>9, <2>10, <2>11, <2>12, <2>13, <2>14, <2>15,
       <2>16, <2>17 DEF Next, Run
<1> QED BY <1>1, <1>2

\* A turn fails for want of an answer only after every fallback has been called,
\* or at a deleted one, after every fallback before it.
THEOREM AllFallbacksTried == Spec => []ExhaustsFallbacks
<1>1. Init => Missing /\ ExhaustsFallbacks
  BY DEF Init, Missing, ExhaustsFallbacks, Between
<1> QED BY <1>1, ExhaustStep, InitInv, StepInv, PTL DEF Spec

-----------------------------------------------------------------------------
\* Every step of the dispatcher is a step of the turn's contract, or invisible.
LEMMA TurnStep == IInv /\ IInv' /\ [Next]_vars => [Turn!TurnNext]_(Turn!turn)
<1> USE DEF Turn!turn, Turn!TurnNext, Turn!LookForKey, Turn!Call, Turn!Transient, Turn!Reply, Turn!Fail
<1> SUFFICES ASSUME IInv, IInv', [Next]_vars PROVE [Turn!TurnNext]_(Turn!turn)
  OBVIOUS
<1>0. /\ TypeOK /\ TypeOK' /\ OneTerminal /\ OneTerminal'
      /\ journal \in Seq(Entry) /\ OnlyNotes(journal, journal)
      /\ {"transient", "fatal", "key", "unknown", "abort", "gone"} \subseteq Causes
  BY NothingWritten DEF IInv, TypeOK, Causes, Errors
<1>a. ASSUME NEW error \in Errors
      PROVE  LET written == Append(journal, Record("dispatch-error", cand, attempt, error))
             IN  written \in Seq(Entry) /\ OnlyNotes(journal, written)
  <2>1. /\ Record("dispatch-error", cand, attempt, error) \in Entry
        /\ Record("dispatch-error", cand, attempt, error).kind # "dispatch"
    BY <1>0, <1>a, RecordType, DispatchAssumption DEF TypeOK, Kinds, Causes, Record
  <2> QED BY <1>0, <2>1, NoteAppended
\* Ending in a failure, from any pc.
<1>b. ASSUME NEW written \in Seq(Entry), OnlyNotes(journal, written), pc # "end",
             NEW cause \in Causes, Surface(written, cause)
      PROVE  Turn!Fail
  <2>1. SameDispatches
    BY <1>0, <1>b, SurfaceIsQuiet
  <2>2. Calls(journal') = Calls(journal)
    BY <1>0, <2>1, QuietStep
  <2>3. stream = <<>> /\ stream' = <<"fail">> /\ pc' = "end"
    <3>1. stream = <<>>
      BY <1>0, <1>b DEF OneTerminal
    <3>2. Append(<<>>, "fail") = <<"fail">>
      OBVIOUS
    <3> QED BY <1>b, <3>1, <3>2 DEF Surface
  <2> QED BY <2>2, <2>3
\* Calling a transport.
<1>c. ASSUME NEW c \in 0..Len(FallbackProfiles), NEW a \in 0..MaxAttempts,
             Invoke(c, a), pc \in {"primaryKey", "backoff", "candidateKey"},
             UNCHANGED stream
      PROVE  Turn!Call
  <2>1. Calls(journal) \in Nat /\ Calls(journal') = Calls(journal) + 1
    BY <1>0, <1>c, CallCounted
  <2>2. stream = <<>> /\ stream' = <<>>
    BY <1>0, <1>c DEF OneTerminal
  <2>3. Calls(journal') <= MaxAttempts + Len(FallbackProfiles)
    <3>1. Used' <= MaxAttempts + Len(FallbackProfiles) /\ Used' \in Int
      BY <1>0, DispatchAssumption DEF TypeOK, Used, Slot, Place, Before, Between
    <3> QED BY <2>1, <3>1, DispatchAssumption DEF IInv
  <2>4. Calls(journal) < MaxAttempts + Len(FallbackProfiles)
    BY <2>1, <2>3, DispatchAssumption
  <2> QED BY <1>c, <2>1, <2>2, <2>4 DEF Invoke
\* Looking for a key.
<1>d. ASSUME pc \in {"start", "backoff"}, pc' \in {"primaryKey", "candidateKey"},
             UNCHANGED <<journal, stream>>
      PROVE  Turn!LookForKey
  <2>1. stream = <<>>
    BY <1>0, <1>d DEF OneTerminal
  <2>2. CASE pc = "start"
    BY <1>d, <2>1, <2>2
  <2>3. CASE pc = "backoff"
    BY <1>d, <2>1, <2>3
  <2> QED BY <1>d, <2>2, <2>3
<1>1. CASE Start
  <2>1. CASE pc' = "primaryKey" /\ UNCHANGED <<journal, stream>>
    BY <1>d, <1>1, <2>1 DEF Start
  <2>2. CASE Surface(journal, "unknown")
    BY <1>0, <1>b, <1>1, <2>2 DEF Start
  <2> QED BY <1>1, <2>1, <2>2 DEF Start
<1>2. CASE PrimaryKeyResolves
  BY <1>c, <1>2, DispatchAssumption DEF PrimaryKeyResolves
<1>3. CASE PrimaryKeyFails
  BY <1>0, <1>b, <1>3 DEF PrimaryKeyFails
<1>4. CASE TransportSucceeds
  <2>1. stream = <<>> /\ stream' = <<"start", "done">>
    <3>1. stream = <<>>
      BY <1>0, <1>4 DEF OneTerminal, TransportSucceeds
    <3>2. <<>> \o <<"start", "done">> = <<"start", "done">>
      OBVIOUS
    <3> QED BY <1>4, <3>1, <3>2 DEF TransportSucceeds
  <2>2. Calls(journal') = Calls(journal)
    <3>1. /\ Record("dispatch-done", cand, attempt, "none") \in Entry
          /\ Record("replay-done", cand, attempt, "none") \in Entry
          /\ Record("dispatch-done", cand, attempt, "none").kind # "dispatch"
          /\ Record("replay-done", cand, attempt, "none").kind # "dispatch"
      BY <1>0, RecordType, DispatchAssumption DEF TypeOK, Kinds, Record
    <3>2. /\ Append(journal, Record("dispatch-done", cand, attempt, "none")) \in Seq(Entry)
          /\ OnlyNotes(journal, Append(journal, Record("dispatch-done", cand, attempt, "none")))
      BY <1>0, <3>1, NoteAppended
    <3>3. SameDispatches
      BY <1>0, <1>4, <3>1, <3>2, NoteAppended DEF SameDispatches, TransportSucceeds
    <3> QED BY <1>0, <3>3, QuietStep
  <2>3. <<"start", "done">> # <<"fail">> /\ <<"start", "done">> # <<>>
    OBVIOUS
  <2> QED BY <1>4, <2>1, <2>2, <2>3 DEF TransportSucceeds
<1>5. ASSUME NEW error \in {"transient", "fatal"}, TransportFails(error)
      PROVE  [Turn!TurnNext]_(Turn!turn)
  <2>1. CASE pc' = "backoff"
    <3>1. journal' = Append(journal, Record("dispatch-error", cand, attempt, error))
          /\ stream' = stream /\ pc = "transport"
      BY <1>5, <2>1 DEF TransportFails, Surface
    <3>2. SameDispatches
      BY <1>a, <3>1 DEF SameDispatches, Errors
    <3>3. Calls(journal') = Calls(journal)
      BY <1>0, <3>2, QuietStep
    <3>4. stream = <<>>
      BY <1>0, <3>1 DEF OneTerminal
    <3> QED BY <2>1, <3>1, <3>3, <3>4
  <2>2. CASE pc' # "backoff"
    BY <1>0, <1>a, <1>b, <1>5, <2>2 DEF TransportFails, Errors
  <2> QED BY <2>1, <2>2
<1>6. CASE BackoffElapses
  <2>1. CASE Invoke(cand, attempt)
    BY <1>0, <1>c, <1>6, <2>1 DEF BackoffElapses, TypeOK
  <2>2. CASE pc' = "candidateKey" /\ UNCHANGED journal
    BY <1>d, <1>6, <2>2 DEF BackoffElapses
  <2> QED BY <1>6, <2>1, <2>2 DEF BackoffElapses
<1>7. CASE BackoffAborts
  BY <1>0, <1>b, <1>7 DEF BackoffAborts
<1>8. CASE CandidateKeyResolves
  BY <1>0, <1>c, <1>8 DEF CandidateKeyResolves, TypeOK
<1>9. CASE CandidateKeyFails
  BY <1>0, <1>a, <1>b, <1>9 DEF CandidateKeyFails, Errors
<1>10. CASE CandidateGone
  BY <1>0, <1>b, <1>10 DEF CandidateGone
<1>11. CASE Abort
  BY <1>11 DEF Abort
<1>12. ASSUME NEW n \in Removable, RemoveProfile(n)
       PROVE  [Turn!TurnNext]_(Turn!turn)
  BY <1>12 DEF RemoveProfile
<1>13. CASE UNCHANGED vars
  BY <1>13 DEF vars
<1>14. QED
  BY <1>1, <1>2, <1>3, <1>4, <1>5, <1>6, <1>7, <1>8, <1>9, <1>10, <1>11, <1>12, <1>13
     DEF Next, Run

\* The dispatcher implements the contract of a turn, its liveness apart.
THEOREM RefinesTurn == Spec => Turn!TurnSpec
<1>1. Init => Turn!TurnInit
  <2> SUFFICES ASSUME Init PROVE Turn!TurnInit
    OBVIOUS
  <2>1. {i \in DOMAIN journal : journal[i].kind = "dispatch"} = {}
    BY DEF Init
  <2>2. Calls(journal) = 0
    BY <2>1, FS_EmptySet DEF Calls
  <2> QED BY <2>2 DEF Init, Turn!TurnInit
<1>2. QED BY <1>1, TurnStep, StepInv, Invariance, PTL DEF Spec, Turn!TurnSpec

\* No step of the loop repeats an attempt of an aborted turn: a backoff that
\* runs or starts under an aborted signal never leads to a call.
THEOREM AbortStopsRetries == Spec => NoRetryAfterAbort
<1>1. [Next]_vars =>
        [aborted /\ pc # "transport" /\ pc' = "transport" => pc \in {"primaryKey", "candidateKey"}]_vars
  BY DEF Next, Run, Start, PrimaryKeyResolves, PrimaryKeyFails, TransportSucceeds, TransportFails,
         BackoffElapses, BackoffAborts, CandidateKeyResolves, CandidateKeyFails, CandidateGone,
         Abort, RemoveProfile, Surface, Interrupted, vars
<1> QED BY <1>1, PTL DEF Spec, NoRetryAfterAbort
=============================================================================
