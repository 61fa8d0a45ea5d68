-------------------------- MODULE Timeline_proofs --------------------------
(***************************************************************************)
(* The abstract history is chronological whatever the reports, so every    *)
(* specification that implements Timeline has chronological histories.     *)
(***************************************************************************)
EXTENDS Timeline, TLAPS

TypeOK ==
  /\ now \in Nat
  /\ trip \in Nat \cup {None}
  /\ stop \in Nat \cup {None}
  /\ tripEnd \in Nat \cup {None}
  /\ stopEnd \in Nat \cup {None}

IInv == TypeOK /\ Chronology

\* Closed and open intervals never overlap nor lie ahead of the last report.
THEOREM HistoryIsChronological ==
  ASSUME Times \subseteq Nat, None \notin Nat
  PROVE  Spec => []Chronology
<1>1. Init => IInv
  BY DEF Init, IInv, TypeOK, Chronology
<1>2. IInv /\ [Next]_vars => IInv'
  <2> SUFFICES ASSUME IInv, [Next]_vars PROVE IInv'
    OBVIOUS
  <2>1. ASSUME NEW t \in Times, Report(t) PROVE IInv'
    <3>1. t \in Nat /\ t > now /\ now' = t
      BY <2>1 DEF Report
    <3>2. /\ stop' \in Nat \cup {None} /\ stopEnd' \in Nat \cup {None}
          /\ stop' # None => stop' <= now'
          /\ stopEnd' # None => stopEnd' <= now'
          /\ stop' # None /\ stopEnd' # None => stopEnd' <= stop'
      BY <2>1, <3>1 DEF Report, IInv, TypeOK, Chronology, KeepStop, OpenStop,
         CloseStop, RecordSilence, Silence
    <3>3. CASE KeepTrip
      BY <2>1, <3>1, <3>2, <3>3 DEF KeepTrip, Report, IInv, TypeOK, Chronology,
         KeepStop, OpenStop, CloseStop, RecordSilence, Silence
    <3>4. CASE CloseTrip(t)
      BY <3>1, <3>2, <3>4 DEF CloseTrip, EndTrip, Rested, IInv, TypeOK, Chronology
    <3>5. CASE OpenTrip(t)
      BY <3>1, <3>2, <3>5 DEF OpenTrip, IInv, TypeOK, Chronology
    <3>6. CASE ReplaceTrip(t)
      BY <3>1, <3>2, <3>6 DEF ReplaceTrip, EndTrip, Rested, IInv, TypeOK, Chronology
    <3>7. QED
      BY <2>1, <3>3, <3>4, <3>5, <3>6 DEF Report
  <2>2. CASE UNCHANGED vars
    BY <2>2 DEF vars, IInv, TypeOK, Chronology
  <2>3. QED
    BY <2>1, <2>2 DEF Next
<1>3. IInv => Chronology
  BY DEF IInv
<1>4. QED
  BY <1>1, <1>2, <1>3, PTL DEF Spec

=============================================================================
