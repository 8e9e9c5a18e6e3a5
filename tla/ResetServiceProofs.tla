------------------------- MODULE ResetServiceProofs -------------------------
(***************************************************************************)
(* Proofs about ResetService, for every set of objects, Sims, elements and *)
(* every number of requests.  The properties are not inductive by          *)
(* themselves: they hold because of how the running call of                *)
(* _process_one_record relates to the record it took out of its list       *)
(* (ProcessingInv) and because a record's stage tells what has been done   *)
(* for it (ProgressInv).                                                   *)
(***************************************************************************)
EXTENDS ResetService, SequenceTheorems, TLAPS

-----------------------------------------------------------------------------
(* The lists of records: what append, insert(0), pop(0) and remove do to   *)
(* what a list without duplicates holds.                                   *)

Holds(s, x)   == \E i \in DOMAIN s : s[i] = x
NoRepeats(s)  == \A i, j \in DOMAIN s : s[i] = s[j] => i = j

LEMMA AppendHolds ==
    ASSUME NEW S, NEW s \in Seq(S), NEW x \in S, NoRepeats(s), ~Holds(s, x)
    PROVE  /\ Append(s, x) \in Seq(S)
           /\ NoRepeats(Append(s, x))
           /\ \A y : Holds(Append(s, x), y) <=> Holds(s, y) \/ y = x
<1> DEFINE t == Append(s, x)
<1>1. /\ t \in Seq(S) /\ Len(t) = Len(s) + 1 /\ t[Len(s) + 1] = x
      /\ \A i \in 1..Len(s) : t[i] = s[i]
    BY AppendProperties
<1>2. /\ DOMAIN s = 1..Len(s) /\ DOMAIN t = 1..(Len(s) + 1) /\ Len(s) \in Nat
    BY <1>1, LenProperties
<1> HIDE DEF t
<1>3. NoRepeats(t)
    BY <1>1, <1>2 DEF NoRepeats, Holds
<1>4. \A y : Holds(t, y) <=> Holds(s, y) \/ y = x
    BY <1>1, <1>2 DEF Holds
<1> QED BY <1>1, <1>3, <1>4 DEF t

LEMMA ConsHolds ==
    ASSUME NEW S, NEW s \in Seq(S), NEW x \in S, NoRepeats(s), ~Holds(s, x)
    PROVE  /\ <<x>> \o s \in Seq(S)
           /\ NoRepeats(<<x>> \o s)
           /\ \A y : Holds(<<x>> \o s, y) <=> Holds(s, y) \/ y = x
<1> DEFINE t == <<x>> \o s
<1>0. <<x>> \in Seq(S) /\ Len(<<x>>) = 1 /\ <<x>>[1] = x
    OBVIOUS
<1>1. /\ t \in Seq(S) /\ Len(t) = Len(s) + 1
      /\ \A i \in 1..(Len(s) + 1) : t[i] = IF i <= 1 THEN x ELSE s[i - 1]
    BY <1>0, ConcatProperties, LenProperties
<1>2. DOMAIN s = 1..Len(s) /\ DOMAIN t = 1..(Len(s) + 1) /\ Len(s) \in Nat
    BY <1>1, LenProperties
<1> HIDE DEF t
<1>3. \A i \in DOMAIN t : i = 1 \/ (i - 1 \in DOMAIN s /\ t[i] = s[i - 1])
    BY <1>1, <1>2
<1>3a. t[1] = x /\ 1 \in DOMAIN t
    BY <1>1, <1>2
<1>4. NoRepeats(t)
  <2> SUFFICES ASSUME NEW i \in DOMAIN t, NEW j \in DOMAIN t, t[i] = t[j]
               PROVE  i = j
      BY DEF NoRepeats
  <2>1. CASE i = 1 /\ j # 1
      BY <2>1, <1>3, <1>3a DEF Holds
  <2>2. CASE i # 1 /\ j = 1
      BY <2>2, <1>3, <1>3a DEF Holds
  <2>3. CASE i # 1 /\ j # 1
    <3>1. i - 1 = j - 1
        BY <2>3, <1>3 DEF NoRepeats
    <3> QED BY <3>1, <1>2
  <2> QED BY <2>1, <2>2, <2>3
<1>5. ASSUME NEW y PROVE Holds(t, y) <=> Holds(s, y) \/ y = x
  <2>1. ASSUME Holds(t, y) PROVE Holds(s, y) \/ y = x
      BY <2>1, <1>3, <1>3a DEF Holds
  <2>2. ASSUME Holds(s, y) PROVE Holds(t, y)
    <3>1. PICK i \in DOMAIN s : s[i] = y
        BY <2>2 DEF Holds
    <3>2. i + 1 \in DOMAIN t /\ t[i + 1] = y
        BY <3>1, <1>1, <1>2
    <3> QED BY <3>2 DEF Holds
  <2> QED BY <2>1, <2>2, <1>3a DEF Holds
<1> QED BY <1>1, <1>4, <1>5 DEF t

LEMMA TailHolds ==
    ASSUME NEW S, NEW s \in Seq(S), s # <<>>, NoRepeats(s)
    PROVE  /\ Head(s) \in S /\ Holds(s, Head(s))
           /\ Tail(s) \in Seq(S)
           /\ NoRepeats(Tail(s))
           /\ \A y : Holds(Tail(s), y) <=> Holds(s, y) /\ y # Head(s)
<1> DEFINE t == Tail(s)
<1>1. /\ Head(s) \in S /\ t \in Seq(S) /\ Len(t) = Len(s) - 1
      /\ \A i \in 1..Len(t) : t[i] = s[i + 1]
    BY HeadTailProperties
<1>2. /\ DOMAIN s = 1..Len(s) /\ Len(s) \in Nat /\ Len(s) # 0
      /\ DOMAIN t = 1..(Len(s) - 1) /\ Head(s) = s[1]
    BY <1>1, LenProperties, EmptySeq
<1> HIDE DEF t
<1>3. NoRepeats(t)
  <2> SUFFICES ASSUME NEW i \in DOMAIN t, NEW j \in DOMAIN t, t[i] = t[j]
               PROVE  i = j
      BY DEF NoRepeats
  <2>1. i + 1 \in DOMAIN s /\ j + 1 \in DOMAIN s /\ s[i + 1] = s[j + 1]
      BY <1>1, <1>2
  <2>2. i + 1 = j + 1
      BY <2>1 DEF NoRepeats
  <2> QED BY <2>2, <1>2
<1>4. ASSUME NEW y PROVE Holds(t, y) <=> Holds(s, y) /\ y # Head(s)
  <2>1. ASSUME Holds(t, y) PROVE Holds(s, y) /\ y # Head(s)
    <3>1. PICK i \in 1..(Len(s) - 1) : t[i] = y
        BY <2>1, <1>2 DEF Holds
    <3>2. s[i + 1] = y /\ i + 1 \in DOMAIN s /\ i + 1 # 1 /\ 1 \in DOMAIN s
        BY <3>1, <1>1, <1>2
    <3> QED BY <3>2, <1>2 DEF Holds, NoRepeats
  <2>2. ASSUME Holds(s, y), y # Head(s) PROVE Holds(t, y)
    <3>1. PICK i \in 1..Len(s) : s[i] = y
        BY <2>2, <1>2 DEF Holds
    <3>2. i - 1 \in 1..Len(t) /\ t[i - 1] = y
        BY <3>1, <2>2, <1>1, <1>2
    <3> QED BY <3>2, <1>1, <1>2 DEF Holds
  <2> QED BY <2>1, <2>2
<1>5. Holds(s, Head(s))
    BY <1>2 DEF Holds
<1> QED BY <1>1, <1>3, <1>4, <1>5 DEF t

LEMMA RemoveAtIs ==
    ASSUME NEW S, NEW s \in Seq(S), NEW k \in 1..Len(s)
    PROVE  /\ RemoveAt(s, k) \in Seq(S)
           /\ Len(RemoveAt(s, k)) = Len(s) - 1
           /\ \A i \in 1..(Len(s) - 1) :
                 RemoveAt(s, k)[i] = IF i < k THEN s[i] ELSE s[i + 1]
<1> DEFINE a == SubSeq(s, 1, k - 1)
           b == SubSeq(s, k + 1, Len(s))
<1>1. Len(s) \in Nat /\ \A i \in 1..Len(s) : s[i] \in S
    BY LenProperties, ElementOfSeq
<1>2. /\ a \in Seq(S) /\ Len(a) = k - 1
      /\ \A i \in 1..(k - 1) : a[i] = s[i]
  <2>1. 1 \in Int /\ k - 1 \in Int /\ \A i \in 1..(k - 1) : s[i] \in S
      BY <1>1
  <2>2. /\ a \in Seq(S) /\ Len(a) = (IF 1 <= k - 1 THEN k - 1 - 1 + 1 ELSE 0)
        /\ \A i \in 1..(k - 1 - 1 + 1) : a[i] = s[1 + i - 1]
      BY <2>1, SubSeqProperties
  <2> HIDE DEF a
  <2> QED BY <2>2, <1>1
<1>3. /\ b \in Seq(S) /\ Len(b) = Len(s) - k
      /\ \A i \in 1..(Len(s) - k) : b[i] = s[k + i]
  <2>1. k + 1 \in Int /\ Len(s) \in Int /\ \A i \in (k + 1)..Len(s) : s[i] \in S
      BY <1>1
  <2>2. /\ b \in Seq(S) /\ Len(b) = (IF k + 1 <= Len(s) THEN Len(s) - (k + 1) + 1 ELSE 0)
        /\ \A i \in 1..(Len(s) - (k + 1) + 1) : b[i] = s[(k + 1) + i - 1]
      BY <2>1, SubSeqProperties
  <2> HIDE DEF b
  <2> QED BY <2>2, <1>1
<1>4. RemoveAt(s, k) = a \o b
    BY DEF RemoveAt
<1> HIDE DEF a, b
<1>5. /\ a \o b \in Seq(S) /\ Len(a \o b) = Len(a) + Len(b)
      /\ \A i \in 1..(Len(a) + Len(b)) :
            (a \o b)[i] = IF i <= Len(a) THEN a[i] ELSE b[i - Len(a)]
    BY <1>2, <1>3, ConcatProperties
<1> DEFINE c == a \o b
<1>6. /\ c \in Seq(S) /\ Len(c) = Len(s) - 1
      /\ \A i \in 1..(Len(s) - 1) : c[i] = IF i < k THEN s[i] ELSE s[i + 1]
  <2> HIDE DEF c
  <2>1. /\ c \in Seq(S) /\ Len(c) = Len(s) - 1
        /\ \A i \in 1..(Len(s) - 1) :
              c[i] = IF i <= k - 1 THEN a[i] ELSE b[i - (k - 1)]
      BY <1>1, <1>2, <1>3, <1>5 DEF c
  <2>2. ASSUME NEW i \in 1..(Len(s) - 1)
        PROVE  c[i] = IF i < k THEN s[i] ELSE s[i + 1]
    <3>1. CASE i < k
        BY <3>1, <2>1, <1>1, <1>2
    <3>2. CASE ~(i < k)
      <4>1. i - (k - 1) \in 1..(Len(s) - k) /\ k + (i - (k - 1)) = i + 1
          BY <3>2, <1>1
      <4> QED BY <4>1, <3>2, <2>1, <1>1, <1>3
    <3> QED BY <3>1, <3>2
  <2> QED BY <2>1, <2>2
<1> QED BY <1>4, <1>6

LEMMA RemoveFirstHolds ==
    ASSUME NEW S, NEW s \in Seq(S), NEW x \in S, NoRepeats(s), Holds(s, x)
    PROVE  /\ RemoveFirst(s, x) \in Seq(S)
           /\ NoRepeats(RemoveFirst(s, x))
           /\ \A y : Holds(RemoveFirst(s, x), y) <=> Holds(s, y) /\ y # x
<1>1. DOMAIN s = 1..Len(s) /\ Len(s) \in Nat
    BY LenProperties
<1>2. PICK k \in 1..Len(s) : s[k] = x
    BY <1>1 DEF Holds
<1>3. \A i \in 1..Len(s) : s[i] = x => i = k
    BY <1>1, <1>2 DEF NoRepeats
<1> DEFINE I == {i \in 1..Len(s) : s[i] = x}
<1>4. I = {k}
    BY <1>2, <1>3
<1>5. Min(I) = k
    BY <1>2, <1>4 DEF Min
<1>6. SelectInSeq(s, LAMBDA v : v = x) = k
    BY <1>4, <1>5 DEF SelectInSeq
<1>7. RemoveFirst(s, x) = RemoveAt(s, k)
    BY <1>2, <1>6 DEF RemoveFirst
<1> DEFINE t == RemoveAt(s, k)
<1>8. /\ t \in Seq(S) /\ Len(t) = Len(s) - 1
      /\ \A i \in 1..(Len(s) - 1) : t[i] = IF i < k THEN s[i] ELSE s[i + 1]
    BY RemoveAtIs
<1> HIDE DEF t
<1>9. DOMAIN t = 1..(Len(s) - 1)
    BY <1>8, LenProperties
<1> DEFINE from(i) == IF i < k THEN i ELSE i + 1
<1>9a. \A i \in DOMAIN t : from(i) \in DOMAIN s /\ from(i) # k /\ t[i] = s[from(i)]
    BY <1>1, <1>2, <1>8, <1>9
<1>10. NoRepeats(t)
  <2> SUFFICES ASSUME NEW i \in DOMAIN t, NEW j \in DOMAIN t, t[i] = t[j]
               PROVE  i = j
      BY DEF NoRepeats
  <2>1. from(i) = from(j)
    <3> HIDE DEF from
    <3> QED BY <1>9a DEF NoRepeats
  <2> QED BY <2>1, <1>2, <1>9
<1>11. ASSUME NEW y PROVE Holds(t, y) <=> Holds(s, y) /\ y # x
  <2>1. ASSUME Holds(t, y) PROVE Holds(s, y) /\ y # x
    <3>1. PICK i \in 1..(Len(s) - 1) : t[i] = y
        BY <2>1, <1>9 DEF Holds
    <3>2. from(i) \in 1..Len(s) /\ s[from(i)] = y /\ from(i) # k
        BY <3>1, <1>1, <1>9, <1>9a
    <3> HIDE DEF from
    <3> QED BY <3>2, <1>1, <1>3 DEF Holds
  <2>2. ASSUME Holds(s, y), y # x PROVE Holds(t, y)
    <3>1. PICK i \in 1..Len(s) : s[i] = y
        BY <2>2, <1>1 DEF Holds
    <3>2. CASE i < k
        BY <3>1, <3>2, <1>1, <1>2, <1>8, <1>9 DEF Holds
    <3>3. CASE i > k
      <4>1. i - 1 \in 1..(Len(s) - 1) /\ t[i - 1] = y
          BY <3>1, <3>3, <1>1, <1>8
      <4> QED BY <4>1, <1>9 DEF Holds
    <3>4. i # k
        BY <3>1, <2>2, <1>2
    <3> QED BY <3>2, <3>3, <3>4
  <2> QED BY <2>1, <2>2
<1> QED BY <1>7, <1>8, <1>10, <1>11 DEF t
-----------------------------------------------------------------------------
(* The inductive invariant. *)

\* While a callback runs, the loop is running, the record exists, and it is
\* at the stage it was taken to or was sent back to PENDING by an upgrade.
ProcessingInv ==
    handling # NoObj =>
        /\ processing
        /\ cursor < PROCESSING_COUNT
        /\ reason[handling] # NONE
        /\ stage[handling] \in {updateStage, PENDING}
        /\ updateStage \notin {PENDING, PROCESSING_COUNT}
        /\ updateStage = DESTROY => reason[handling] = BEING_DESTROYED
                                    /\ stage[handling] = DESTROY

\* Outside a callback every record is at a stage that has a list; the stages
\* after INTERNAL_STATE_RESET depend on the reason; and a stage is reached
\* only through the calls before it.
ProgressInv ==
    \A o \in Obj :
        /\ reason[o] # NONE /\ o # handling => stage[o] \in ProcessedStage
        /\ reason[o] = NONE => stage[o] = PENDING
        /\ stage[o] = DESTROY => reason[o] = BEING_DESTROYED
        /\ stage[o] \in {RESTART_PURGATORY, RESTART} => reason[o] # BEING_DESTROYED
        /\ stage[o] # PROCESSING_COUNT
        /\ stage[o] > HARD_STOP_ELEMENTS => elements[o] = {}
        /\ \A s \in {EARLY_DETACHMENT, SEND_RESET_OP, INTERNAL_STATE_RESET} :
              stage[o] >= s => s \in handled[o]

IInv ==
    /\ TypeOK
    /\ RecordsStagedOnce
    /\ ProcessingInv
    /\ ProgressInv
    /\ MasterControllerWaits

USE DEF NONE, BEING_DESTROYED, PENDING, EARLY_DETACHMENT, HARD_STOP_ELEMENTS,
        HARD_STOP_PURGATORY, SEND_RESET_OP, INTERNAL_STATE_RESET,
        RESTART_PURGATORY, PROCESSING_COUNT, DESTROY, RESTART,
        RESET_EXPECTED, ResetReason, Requests, Stage, ProcessedStage

\* RecordsStagedOnce in terms of the list operators above.
ListOK(s)     == NoRepeats(staged[s])
Listed(o, s)  == Holds(staged[s], o) <=> reason[o] # NONE /\ o # handling /\ stage[o] = s

LEMMA StagedOnceLists ==
    RecordsStagedOnce <=> \A s \in ProcessedStage :
                             ListOK(s) /\ \A o \in Obj : Listed(o, s)
BY DEF RecordsStagedOnce, Waiting, NoRepeats, Holds, ListOK, Listed

LEMMA StagedOnceListsNext ==
    RecordsStagedOnce' <=> \A s \in ProcessedStage :
                             ListOK(s)' /\ \A o \in Obj : Listed(o, s)'
BY DEF RecordsStagedOnce, Waiting, NoRepeats, Holds, ListOK, Listed

LEMMA InitIInv == Init => IInv
<1> SUFFICES ASSUME Init PROVE IInv
    OBVIOUS
<1>1. TypeOK
  <2>1. << >> \in Seq(Obj)
      BY EmptySeq
  <2>2. staged \in [ProcessedStage -> Seq(Obj)]
      BY <2>1 DEF Init
  <2>3. /\ reason \in [Obj -> ResetReason] /\ stage \in [Obj -> Stage]
        /\ elements \in [Obj -> SUBSET Element]
        /\ scheduled \in [Obj -> SUBSET Element]
        /\ handled \in [Obj -> SUBSET Stage]
      BY DEF Init
  <2>4. /\ cursor \in 0..PROCESSING_COUNT /\ handling \in Obj \cup {NoObj}
        /\ updateStage \in Stage /\ requests \in Nat
      BY DEF Init
  <2>5. /\ processing \in BOOLEAN /\ gathering \in BOOLEAN /\ hung \in BOOLEAN
        /\ resetInProgress \in BOOLEAN /\ pokedSims \subseteq Sims
        /\ inManager \subseteq Obj
      BY DEF Init
  <2> QED BY <2>2, <2>3, <2>4, <2>5 DEF TypeOK
<1>2. RecordsStagedOnce
    BY DEF Init, RecordsStagedOnce, Waiting
<1>3. ProcessingInv /\ ProgressInv /\ MasterControllerWaits
    BY DEF Init, ProcessingInv, ProgressInv, MasterControllerWaits, Registered
<1> QED BY <1>1, <1>2, <1>3 DEF IInv

\* A new record is put at the end of the PENDING list.
LEMMA AddNewRecordStep ==
    ASSUME IInv, NEW o \in Obj, NEW r \in Requests, AddNewRecord(o, r),
           UNCHANGED <<handling, updateStage, cursor, processing>>
    PROVE  /\ reason' \in [Obj -> ResetReason] /\ stage' \in [Obj -> Stage]
           /\ staged' \in [ProcessedStage -> Seq(Obj)]
           /\ handled' \in [Obj -> SUBSET Stage]
           /\ RecordsStagedOnce'
           /\ ProcessingInv'
<1> USE DEF IInv
<1>1. /\ reason' \in [Obj -> ResetReason] /\ stage' \in [Obj -> Stage]
      /\ handled' \in [Obj -> SUBSET Stage]
    BY SMTT(30) DEF AddNewRecord, TypeOK
<1>2. /\ staged[PENDING] \in Seq(Obj) /\ NoRepeats(staged[PENDING])
      /\ ~Holds(staged[PENDING], o)
    BY StagedOnceLists DEF TypeOK, ListOK, Listed, AddNewRecord, IsNew
<1>3. /\ staged'[PENDING] \in Seq(Obj) /\ NoRepeats(staged'[PENDING])
      /\ \A y : Holds(staged'[PENDING], y) <=> Holds(staged[PENDING], y) \/ y = o
    BY <1>2, AppendHolds DEF AddNewRecord, TypeOK
<1>4. /\ staged' \in [ProcessedStage -> Seq(Obj)]
      /\ \A s \in ProcessedStage : s # PENDING => staged'[s] = staged[s]
    BY <1>2, <1>3 DEF AddNewRecord, TypeOK
<1>5. handling # o
    BY ObjAssumption DEF ProcessingInv, AddNewRecord, IsNew
<1>6. RecordsStagedOnce'
  <2> SUFFICES ASSUME NEW s \in ProcessedStage
               PROVE  ListOK(s)' /\ \A q \in Obj : Listed(q, s)'
      BY StagedOnceListsNext
  <2>1. ListOK(s) /\ \A q \in Obj : Listed(q, s)
      BY StagedOnceLists
  <2>2. ASSUME NEW q \in Obj, q # o
        PROVE  reason'[q] = reason[q] /\ stage'[q] = stage[q]
      BY <2>2 DEF AddNewRecord, TypeOK
  <2>3. reason'[o] # NONE /\ stage'[o] = PENDING /\ reason[o] = NONE
      BY DEF AddNewRecord, TypeOK, IsNew
  <2>4. CASE s = PENDING
      BY <1>3, <1>5, <2>1, <2>2, <2>3, <2>4 DEF ListOK, Listed
  <2>5. CASE s # PENDING
      BY <1>4, <1>5, <2>1, <2>2, <2>3, <2>5 DEF ListOK, Listed
  <2> QED BY <2>4, <2>5
<1>7. ProcessingInv'
    BY <1>5 DEF ProcessingInv, AddNewRecord, TypeOK
<1> QED BY <1>1, <1>4, <1>6, <1>7

\* _change_record_stage moves a waiting record to the end of PENDING.
LEMMA MovedToPendingLists ==
    ASSUME IInv, NEW o \in Obj, reason[o] # NONE, o # handling
    PROVE  /\ MovedToPending(o) \in [ProcessedStage -> Seq(Obj)]
           /\ \A s \in ProcessedStage :
                 /\ NoRepeats(MovedToPending(o)[s])
                 /\ \A y : Holds(MovedToPending(o)[s], y) <=>
                              IF y = o THEN s = PENDING ELSE Holds(staged[s], y)
<1> USE DEF IInv
<1> DEFINE k == stage[o]
           removed == [staged EXCEPT ![k] = RemoveFirst(@, o)]
           moved == [removed EXCEPT ![PENDING] = Append(@, o)]
<1>1. k \in ProcessedStage
    BY DEF ProgressInv
<1>2. staged \in [ProcessedStage -> Seq(Obj)]
    BY DEF TypeOK
<1>3. \A s \in ProcessedStage : /\ NoRepeats(staged[s])
                                /\ Holds(staged[s], o) <=> s = k
    BY StagedOnceLists DEF ListOK, Listed
<1>4. /\ RemoveFirst(staged[k], o) \in Seq(Obj)
      /\ NoRepeats(RemoveFirst(staged[k], o))
      /\ \A y : Holds(RemoveFirst(staged[k], o), y) <=> Holds(staged[k], y) /\ y # o
    BY <1>1, <1>2, <1>3, RemoveFirstHolds
<1>5. removed \in [ProcessedStage -> Seq(Obj)]
    BY <1>1, <1>2, <1>4
<1>6. \A s \in ProcessedStage :
         /\ NoRepeats(removed[s])
         /\ \A y : Holds(removed[s], y) <=> Holds(staged[s], y) /\ y # o
    BY <1>1, <1>2, <1>3, <1>4
<1> HIDE DEF removed, k
<1>7. /\ Append(removed[PENDING], o) \in Seq(Obj)
      /\ NoRepeats(Append(removed[PENDING], o))
      /\ \A y : Holds(Append(removed[PENDING], o), y) <=> Holds(removed[PENDING], y) \/ y = o
    BY <1>5, <1>6, AppendHolds
<1>8. moved \in [ProcessedStage -> Seq(Obj)]
    BY <1>5, <1>7
<1>9. ASSUME NEW s \in ProcessedStage
      PROVE  /\ NoRepeats(moved[s])
             /\ \A y : Holds(moved[s], y) <=>
                          IF y = o THEN s = PENDING ELSE Holds(staged[s], y)
  <2>1. CASE s = PENDING
      BY <2>1, <1>5, <1>6, <1>7
  <2>2. CASE s # PENDING
      BY <2>2, <1>5, <1>6
  <2> QED BY <2>1, <2>2
<1>10. MovedToPending(o) = moved
    BY DEF MovedToPending, moved, removed, k
<1> QED BY <1>8, <1>9, <1>10

LEMMA UpgradeRecordStep ==
    ASSUME IInv, NEW o \in Obj, NEW r \in Requests, UpgradeRecord(o, r),
           UNCHANGED <<handling, updateStage>>, processing => processing' /\ cursor' = cursor
    PROVE  /\ reason' \in [Obj -> ResetReason] /\ stage' \in [Obj -> Stage]
           /\ staged' \in [ProcessedStage -> Seq(Obj)]
           /\ handled' \in [Obj -> SUBSET Stage]
           /\ RecordsStagedOnce'
           /\ ProcessingInv'
<1> USE DEF IInv
<1>1. /\ reason' \in [Obj -> ResetReason] /\ stage' \in [Obj -> Stage]
      /\ handled' \in [Obj -> SUBSET Stage]
      /\ reason[o] # NONE /\ reason'[o] = r /\ stage'[o] = PENDING
      /\ \A q \in Obj : q # o => reason'[q] = reason[q] /\ stage'[q] = stage[q]
    BY DEF UpgradeRecord, Upgrades, TypeOK
<1>2. ProcessingInv'
    BY <1>1 DEF ProcessingInv, UpgradeRecord, Upgrades, TypeOK
<1>3. staged' \in [ProcessedStage -> Seq(Obj)] /\ RecordsStagedOnce'
  <2>1. CASE handling = o
    <3>1. staged' = staged
        BY <2>1 DEF UpgradeRecord, Restage
    <3>2. ASSUME NEW s \in ProcessedStage
          PROVE  ListOK(s)' /\ \A q \in Obj : Listed(q, s)'
      <4>1. ListOK(s) /\ \A q \in Obj : Listed(q, s)
          BY StagedOnceLists
      <4> QED BY <4>1, <3>1, <2>1, <1>1 DEF ListOK, Listed
    <3> QED BY <3>1, <3>2, StagedOnceListsNext DEF TypeOK
  <2>2. CASE handling # o
    <3>1. staged' = MovedToPending(o)
        BY <2>2 DEF UpgradeRecord, Restage
    <3>2. staged' \in [ProcessedStage -> Seq(Obj)]
        BY <3>1, <2>2, <1>1, MovedToPendingLists
    <3>3. ASSUME NEW s \in ProcessedStage
          PROVE  ListOK(s)' /\ \A q \in Obj : Listed(q, s)'
      <4>1. ListOK(s) /\ \A q \in Obj : Listed(q, s)
          BY StagedOnceLists
      <4>2. /\ NoRepeats(staged'[s])
            /\ \A y : Holds(staged'[s], y) <=>
                         IF y = o THEN s = PENDING ELSE Holds(staged[s], y)
          BY <3>1, <2>2, <1>1, MovedToPendingLists
      <4>3. r # NONE
          OBVIOUS
      <4> QED BY <4>1, <4>2, <4>3, <2>2, <1>1 DEF ListOK, Listed
    <3> QED BY <3>2, <3>3, StagedOnceListsNext
  <2> QED BY <2>1, <2>2
<1> QED BY <1>1, <1>2, <1>3

\* The conjuncts of ProgressInv about one object.
Progress(o) ==
    /\ reason[o] # NONE /\ o # handling => stage[o] \in ProcessedStage
    /\ reason[o] = NONE => stage[o] = PENDING
    /\ stage[o] = DESTROY => reason[o] = BEING_DESTROYED
    /\ stage[o] \in {RESTART_PURGATORY, RESTART} => reason[o] # BEING_DESTROYED
    /\ stage[o] # PROCESSING_COUNT
    /\ stage[o] > HARD_STOP_ELEMENTS => elements[o] = {}
    /\ \A s \in {EARLY_DETACHMENT, SEND_RESET_OP, INTERNAL_STATE_RESET} :
          stage[o] >= s => s \in handled[o]

LEMMA ProgressOf ==
    /\ ProgressInv <=> \A o \in Obj : Progress(o)
    /\ ProgressInv' <=> \A o \in Obj : Progress(o)'
BY DEF ProgressInv, Progress

\* An object whose record a step leaves alone keeps its progress.
LEMMA ProgressUntouched ==
    ASSUME NEW o \in Obj, Progress(o), reason'[o] = reason[o], stage'[o] = stage[o],
           elements'[o] = elements[o], handled'[o] = handled[o],
           o # handling' => o # handling \/ stage[o] \in ProcessedStage
    PROVE  Progress(o)'
BY DEF Progress

\* An object with a new or upgraded record starts again at PENDING.
LEMMA ProgressPending ==
    ASSUME NEW o \in Obj, stage'[o] = PENDING, reason'[o] \in ResetReason
    PROVE  Progress(o)'
BY DEF Progress

-----------------------------------------------------------------------------
(* Every action preserves the invariant. *)

LEMMA TriggerNewStep ==
    ASSUME IInv, NEW o \in Obj, NEW r \in Requests, TriggerNew(o, r)
    PROVE  IInv'
<1> USE DEF IInv
<1>1. AddNewRecord(o, r) /\ UNCHANGED <<handling, updateStage, cursor, processing>>
    BY DEF TriggerNew, loop
<1>2. /\ reason' \in [Obj -> ResetReason] /\ stage' \in [Obj -> Stage]
      /\ staged' \in [ProcessedStage -> Seq(Obj)]
      /\ handled' \in [Obj -> SUBSET Stage]
      /\ RecordsStagedOnce' /\ ProcessingInv'
    BY <1>1, AddNewRecordStep
<1>3. TypeOK'
  <2>1. /\ elements' \in [Obj -> SUBSET Element]
        /\ scheduled' \in [Obj -> SUBSET Element] /\ requests' \in Nat
      BY DEF TypeOK, TriggerNew, CountRequest
  <2>2. /\ gathering' = TRUE
        /\ UNCHANGED <<processing, cursor, handling, updateStage, hung,
                       pokedSims, resetInProgress, inManager>>
      BY DEF TriggerNew, loop
  <2> QED BY <1>2, <2>1, <2>2 DEF TypeOK
<1>4. ProgressInv'
  <2>1. ASSUME NEW q \in Obj PROVE Progress(q)'
    <3>1. CASE q = o
        BY <3>1, <1>1, <1>2, ProgressPending DEF AddNewRecord, TypeOK
    <3>2. CASE q # o
        BY <3>2, <1>1, ProgressOf, ProgressUntouched
        DEF AddNewRecord, TypeOK, TriggerNew
    <3> QED BY <3>1, <3>2
  <2> QED BY <2>1, ProgressOf
<1>5. MasterControllerWaits'
    BY <1>1 DEF MasterControllerWaits, TriggerNew
<1> QED BY <1>2, <1>3, <1>4, <1>5

LEMMA UpdateRecordStep ==
    ASSUME IInv, NEW o \in Obj, NEW r \in Requests, UpdateRecord(o, r),
           UNCHANGED <<handling, updateStage, elements>>,
           processing => processing' /\ cursor' = cursor
    PROVE  /\ reason' \in [Obj -> ResetReason] /\ stage' \in [Obj -> Stage]
           /\ staged' \in [ProcessedStage -> Seq(Obj)]
           /\ handled' \in [Obj -> SUBSET Stage]
           /\ RecordsStagedOnce' /\ ProcessingInv' /\ ProgressInv'
           /\ Registered' = Registered
<1> USE DEF IInv
<1>1. CASE UpgradeRecord(o, r)
  <2>1. /\ reason' \in [Obj -> ResetReason] /\ stage' \in [Obj -> Stage]
        /\ staged' \in [ProcessedStage -> Seq(Obj)]
        /\ handled' \in [Obj -> SUBSET Stage]
        /\ RecordsStagedOnce' /\ ProcessingInv'
      BY <1>1, UpgradeRecordStep
  <2>2. ASSUME NEW q \in Obj PROVE Progress(q)'
    <3>1. CASE q = o
        BY <3>1, <1>1, <2>1, ProgressPending DEF UpgradeRecord, TypeOK
    <3>2. CASE q # o
        BY <3>2, <1>1, ProgressOf, ProgressUntouched DEF UpgradeRecord, TypeOK
    <3> QED BY <3>1, <3>2
  <2>3. Registered' = Registered
      BY <1>1 DEF Registered, UpgradeRecord, Upgrades, TypeOK
  <2> QED BY <2>1, <2>2, <2>3, ProgressOf
<1>2. CASE UNCHANGED <<reason, stage, staged, handled>>
  <2>1. /\ reason' \in [Obj -> ResetReason] /\ stage' \in [Obj -> Stage]
        /\ staged' \in [ProcessedStage -> Seq(Obj)]
        /\ handled' \in [Obj -> SUBSET Stage]
      BY <1>2 DEF TypeOK
  <2>2. RecordsStagedOnce' /\ ProcessingInv' /\ ProgressInv' /\ Registered' = Registered
      BY <1>2 DEF RecordsStagedOnce, Waiting, ProcessingInv, ProgressInv, Registered
  <2> QED BY <2>1, <2>2
<1> QED BY <1>1, <1>2 DEF UpdateRecord

LEMMA StartProcessingStep ==
    ASSUME IInv, StartProcessing
    PROVE  /\ processing' /\ resetInProgress'
           /\ processing' \in BOOLEAN /\ cursor' \in 0..PROCESSING_COUNT
           /\ processing => processing' /\ cursor' = cursor
<1>1. CASE processing
  <2>1. processing' = processing /\ cursor' = cursor /\ resetInProgress' = resetInProgress
      BY <1>1 DEF StartProcessing
  <2>2. /\ processing \in BOOLEAN /\ cursor \in 0..PROCESSING_COUNT
        /\ processing => resetInProgress
      BY DEF IInv, TypeOK, MasterControllerWaits
  <2> QED BY <1>1, <2>1, <2>2
<1>2. CASE ~processing
  <2>1. processing' = TRUE /\ cursor' = PROCESSING_COUNT /\ resetInProgress' = TRUE
      BY <1>2 DEF StartProcessing
  <2> QED BY <1>2, <2>1
<1> QED BY <1>1, <1>2

LEMMA TriggerAgainStep ==
    ASSUME IInv, NEW o \in Obj, NEW r \in Requests, TriggerAgain(o, r)
    PROVE  IInv'
<1>1. /\ UpdateRecord(o, r) /\ StartProcessing
      /\ UNCHANGED <<handling, updateStage, elements>>
    BY DEF TriggerAgain
<1>2. /\ processing' /\ resetInProgress'
      /\ processing' \in BOOLEAN /\ cursor' \in 0..PROCESSING_COUNT
      /\ processing => processing' /\ cursor' = cursor
    BY <1>1, StartProcessingStep
<1>3. /\ reason' \in [Obj -> ResetReason] /\ stage' \in [Obj -> Stage]
      /\ staged' \in [ProcessedStage -> Seq(Obj)]
      /\ handled' \in [Obj -> SUBSET Stage]
      /\ RecordsStagedOnce' /\ ProcessingInv' /\ ProgressInv'
    BY <1>1, <1>2, UpdateRecordStep
<1>4. resetInProgress' \in BOOLEAN
    BY DEF IInv, TypeOK, TriggerAgain, StartProcessing
<1>5. TypeOK'
  <2>1. /\ UNCHANGED <<elements, handling, updateStage, gathering, hung,
                       pokedSims, inManager, scheduled>>
        /\ requests' \in Nat
      BY DEF IInv, TypeOK, TriggerAgain, CountRequest
  <2> QED BY <1>2, <1>3, <1>4, <2>1 DEF IInv, TypeOK
<1>6. MasterControllerWaits'
    BY <1>2 DEF MasterControllerWaits
<1> QED BY <1>3, <1>5, <1>6 DEF IInv

LEMMA GatherKnownStep ==
    ASSUME IInv, NEW o \in Obj, NEW r \in Requests, GatherKnown(o, r)
    PROVE  IInv'
<1>1. /\ UpdateRecord(o, r)
      /\ UNCHANGED <<handling, updateStage, elements, processing, cursor>>
    BY DEF GatherKnown, loop
<1>2. /\ reason' \in [Obj -> ResetReason] /\ stage' \in [Obj -> Stage]
      /\ staged' \in [ProcessedStage -> Seq(Obj)]
      /\ handled' \in [Obj -> SUBSET Stage]
      /\ RecordsStagedOnce' /\ ProcessingInv' /\ ProgressInv'
      /\ Registered' = Registered
    BY <1>1, UpdateRecordStep
<1>3. TypeOK'
    BY <1>1, <1>2 DEF IInv, TypeOK, GatherKnown, world
<1>4. MasterControllerWaits'
    BY <1>1, <1>2 DEF IInv, MasterControllerWaits, GatherKnown, world
<1> QED BY <1>2, <1>3, <1>4 DEF IInv

LEMMA GatherNewStep ==
    ASSUME IInv, NEW o \in Obj, NEW r \in Requests, GatherNew(o, r)
    PROVE  IInv'
<1> USE DEF IInv
<1>1. AddNewRecord(o, r) /\ UNCHANGED <<handling, updateStage, cursor, processing>>
    BY DEF GatherNew, loop
<1>2. /\ reason' \in [Obj -> ResetReason] /\ stage' \in [Obj -> Stage]
      /\ staged' \in [ProcessedStage -> Seq(Obj)]
      /\ handled' \in [Obj -> SUBSET Stage]
      /\ RecordsStagedOnce' /\ ProcessingInv'
    BY <1>1, AddNewRecordStep
<1>3. TypeOK'
  <2>1. /\ hung' = TRUE
        /\ UNCHANGED <<elements, processing, cursor, handling, updateStage,
                       gathering, pokedSims, resetInProgress, inManager,
                       scheduled, requests>>
      BY DEF GatherNew, loop, world
  <2> QED BY <1>2, <2>1 DEF TypeOK
<1>4. ProgressInv'
  <2>1. ASSUME NEW q \in Obj PROVE Progress(q)'
    <3>1. CASE q = o
        BY <3>1, <1>1, <1>2, ProgressPending DEF AddNewRecord, TypeOK
    <3>2. CASE q # o
        BY <3>2, <1>1, ProgressOf, ProgressUntouched
        DEF AddNewRecord, TypeOK, GatherNew
    <3> QED BY <3>1, <3>2
  <2> QED BY <2>1, ProgressOf
<1>5. MasterControllerWaits'
    BY <1>1 DEF MasterControllerWaits, GatherNew, world
<1> QED BY <1>2, <1>3, <1>4, <1>5

\* Steps that touch no record.
LEMMA RecordsUntouched ==
    ASSUME IInv, UNCHANGED record, UNCHANGED <<handling, updateStage>>,
           handling # NoObj => processing' /\ cursor' = cursor
    PROVE  /\ RecordsStagedOnce' /\ ProcessingInv' /\ ProgressInv'
           /\ Registered' = Registered
BY DEF IInv, record, RecordsStagedOnce, Waiting, ProcessingInv, ProgressInv, Registered

LEMMA OtherSteps ==
    ASSUME IInv,
           \/ TriggerBatch \/ EndGather \/ BeginPass \/ SkipStage
           \/ FinishProcessing \/ Elements \/ ResumeAfterHardStop
    PROVE  IInv'
<1> USE DEF IInv
<1>1. CASE TriggerBatch
  <2>1. TypeOK'
      BY <1>1, SMTT(30) DEF TypeOK, TriggerBatch, CountRequest, record, loop, world
  <2>2. RecordsStagedOnce' /\ ProcessingInv' /\ ProgressInv' /\ Registered' = Registered
      BY <1>1, RecordsUntouched DEF TriggerBatch, loop, ProcessingInv
  <2>3. MasterControllerWaits'
      BY <1>1, <2>2 DEF MasterControllerWaits, TriggerBatch, loop, world
  <2> QED BY <2>1, <2>2, <2>3
<1>2. CASE EndGather
  <2>1. StartProcessing
      BY <1>2 DEF EndGather
  <2>2. /\ processing' /\ resetInProgress'
        /\ processing' \in BOOLEAN /\ cursor' \in 0..PROCESSING_COUNT
        /\ processing => processing' /\ cursor' = cursor
      BY <2>1, StartProcessingStep
  <2>3. TypeOK'
      BY <1>2, <2>1, <2>2 DEF TypeOK, EndGather, record, StartProcessing
  <2>4. RecordsStagedOnce' /\ ProcessingInv' /\ ProgressInv'
      BY <1>2, <2>2, RecordsUntouched DEF EndGather, ProcessingInv
  <2>5. MasterControllerWaits'
      BY <2>2 DEF MasterControllerWaits
  <2> QED BY <2>3, <2>4, <2>5
<1>3. CASE BeginPass
  <2>1. TypeOK'
      BY <1>3 DEF TypeOK, BeginPass, record, world
  <2>2. RecordsStagedOnce' /\ ProcessingInv' /\ ProgressInv' /\ Registered' = Registered
      BY <1>3, RecordsUntouched DEF BeginPass, BetweenRecords
  <2>3. MasterControllerWaits'
      BY <1>3, <2>2 DEF MasterControllerWaits, BeginPass, world
  <2> QED BY <2>1, <2>2, <2>3
<1>4. CASE SkipStage
  <2>1. TypeOK'
      BY <1>4 DEF TypeOK, SkipStage, record, world
  <2>2. RecordsStagedOnce' /\ ProcessingInv' /\ ProgressInv' /\ Registered' = Registered
      BY <1>4, RecordsUntouched DEF SkipStage, BetweenRecords
  <2>3. MasterControllerWaits'
      BY <1>4, <2>2 DEF MasterControllerWaits, SkipStage, world
  <2> QED BY <2>1, <2>2, <2>3
<1>5. CASE FinishProcessing
  <2>1. TypeOK'
      BY <1>5 DEF TypeOK, FinishProcessing, record
  <2>2. RecordsStagedOnce' /\ ProcessingInv' /\ ProgressInv' /\ Registered' = Registered
      BY <1>5, RecordsUntouched DEF FinishProcessing, BetweenRecords
  <2>3. MasterControllerWaits'
      BY <1>5, <2>2 DEF MasterControllerWaits, FinishProcessing
  <2> QED BY <2>1, <2>2, <2>3
<1>6. CASE Elements
  <2>1. PICK o \in Obj, e \in Element : ScheduleElement(o, e) \/ ElementResumes(o, e)
      BY <1>6 DEF Elements
  <2>2. /\ UNCHANGED <<record, loop, gathering, hung, pokedSims, resetInProgress,
                       inManager, requests>>
        /\ scheduled' \in [Obj -> SUBSET Element]
    <3>1. CASE ScheduleElement(o, e)
        BY <3>1 DEF ScheduleElement, TypeOK
    <3>2. CASE ElementResumes(o, e)
        BY <3>2 DEF ElementResumes, TypeOK
    <3> QED BY <2>1, <3>1, <3>2
  <2>3. TypeOK'
      BY <2>2 DEF TypeOK, record, loop
  <2>4. RecordsStagedOnce' /\ ProcessingInv' /\ ProgressInv' /\ Registered' = Registered
      BY <2>2, RecordsUntouched DEF loop, ProcessingInv
  <2>5. MasterControllerWaits'
      BY <2>2, <2>4 DEF MasterControllerWaits, loop
  <2> QED BY <2>3, <2>4, <2>5
<1>7. CASE ResumeAfterHardStop
  <2>1. StartProcessing
      BY <1>7 DEF ResumeAfterHardStop
  <2>2. /\ processing' /\ resetInProgress'
        /\ processing' \in BOOLEAN /\ cursor' \in 0..PROCESSING_COUNT
        /\ processing => processing' /\ cursor' = cursor
      BY <2>1, StartProcessingStep
  <2>3. TypeOK'
      BY <1>7, <2>1, <2>2 DEF TypeOK, ResumeAfterHardStop, record, StartProcessing
  <2>4. RecordsStagedOnce' /\ ProcessingInv' /\ ProgressInv'
      BY <1>7, <2>2, RecordsUntouched DEF ResumeAfterHardStop, ProcessingInv
  <2>5. MasterControllerWaits'
      BY <2>2 DEF MasterControllerWaits
  <2> QED BY <2>3, <2>4, <2>5
<1> QED BY <1>1, <1>2, <1>3, <1>4, <1>5, <1>6, <1>7

\* The record at the head of a list goes on to the stage NextStage says.
LEMMA ProcessOneRecordStep ==
    ASSUME IInv, ProcessOneRecord
    PROVE  IInv'
<1> USE DEF IInv
<1> DEFINE o == Head(staged[cursor])
           n == NextStage(o)
<1>1. /\ cursor \in ProcessedStage /\ staged[cursor] \in Seq(Obj)
      /\ staged[cursor] # <<>> /\ NoRepeats(staged[cursor])
    BY StagedOnceLists DEF ProcessOneRecord, TypeOK, ListOK
<1>2. /\ o \in Obj /\ Holds(staged[cursor], o)
      /\ Tail(staged[cursor]) \in Seq(Obj) /\ NoRepeats(Tail(staged[cursor]))
      /\ \A y : Holds(Tail(staged[cursor]), y) <=> Holds(staged[cursor], y) /\ y # o
    BY <1>1, TailHolds
<1>3. /\ staged' = [staged EXCEPT ![cursor] = Tail(@)]
      /\ handling' = o /\ updateStage' = n /\ handling = NoObj
      /\ stage' = [stage EXCEPT ![o] = n]
      /\ handled' = [handled EXCEPT ![o] = @ \cup {n}]
      /\ processing
      /\ UNCHANGED <<reason, processing, cursor, gathering, hung, pokedSims,
                     resetInProgress, inManager, scheduled, requests>>
    BY DEF ProcessOneRecord, BetweenRecords, world
<1>4. /\ elements' \in [Obj -> SUBSET Element]
      /\ \A q \in Obj : q # o => elements'[q] = elements[q]
      /\ n # HARD_STOP_ELEMENTS => elements' = elements
  <2>1. CASE n = HARD_STOP_ELEMENTS
    <3>1. PICK e \in elements[o] : elements' = [elements EXCEPT ![o] = @ \ {e}]
        BY <2>1 DEF ProcessOneRecord
    <3> QED BY <3>1, <2>1, <1>2 DEF TypeOK
  <2>2. CASE n # HARD_STOP_ELEMENTS
    <3>1. elements' = elements
        BY <2>2 DEF ProcessOneRecord
    <3> QED BY <3>1 DEF TypeOK
  <2> QED BY <2>1, <2>2
<1> HIDE DEF o
<1>5. reason[o] # NONE /\ stage[o] = cursor
  <2>1. Listed(o, cursor)
      BY <1>1, <1>2, StagedOnceLists
  <2> QED BY <2>1, <1>2 DEF Listed
<1>6. /\ n \in Stage \ {PENDING, PROCESSING_COUNT}
      /\ n = DESTROY => reason[o] = BEING_DESTROYED
      /\ n \in {RESTART_PURGATORY, RESTART} => reason[o] # BEING_DESTROYED
      /\ n > HARD_STOP_ELEMENTS => elements[o] = {}
      /\ n > EARLY_DETACHMENT => EARLY_DETACHMENT \in handled[o]
      /\ n > SEND_RESET_OP => SEND_RESET_OP \in handled[o]
      /\ n > INTERNAL_STATE_RESET => INTERNAL_STATE_RESET \in handled[o]
  <2>1. Progress(o) /\ stage[o] \in ProcessedStage
      BY <1>1, <1>2, <1>5, ProgressOf
  <2>2. CASE stage[o] = PENDING
      BY <2>1, <2>2 DEF Progress, NextStage
  <2>3. CASE stage[o] \in {EARLY_DETACHMENT, HARD_STOP_ELEMENTS}
      BY <2>1, <2>3 DEF Progress, NextStage
  <2>4. CASE stage[o] = HARD_STOP_PURGATORY
      BY <2>1, <2>4 DEF Progress, NextStage
  <2>5. CASE stage[o] = SEND_RESET_OP
      BY <2>1, <2>5 DEF Progress, NextStage
  <2>6. CASE stage[o] = INTERNAL_STATE_RESET
      BY <2>1, <2>6 DEF Progress, NextStage
  <2>7. CASE stage[o] = RESTART_PURGATORY
      BY <2>1, <2>7 DEF Progress, NextStage
  <2> QED BY <2>1, <2>2, <2>3, <2>4, <2>5, <2>6, <2>7
<1> HIDE DEF n
<1>7. TypeOK'
  <2>1. /\ stage' \in [Obj -> Stage] /\ handled' \in [Obj -> SUBSET Stage]
        /\ staged' \in [ProcessedStage -> Seq(Obj)]
      BY <1>1, <1>2, <1>3, <1>6 DEF TypeOK
  <2>2. updateStage' \in Stage /\ handling' \in Obj \cup {NoObj}
      BY <1>2, <1>3, <1>6
  <2> QED BY <1>3, <1>4, <2>1, <2>2 DEF TypeOK
<1>8. RecordsStagedOnce'
  <2> SUFFICES ASSUME NEW s \in ProcessedStage
               PROVE  ListOK(s)' /\ \A q \in Obj : Listed(q, s)'
      BY StagedOnceListsNext
  <2>1. ListOK(s) /\ \A q \in Obj : Listed(q, s)
      BY StagedOnceLists
  <2>2. \A q \in Obj : q # NoObj
      BY ObjAssumption
  <2>3. \A q \in Obj : q # o => stage'[q] = stage[q]
      BY <1>3 DEF TypeOK
  <2>4. CASE s = cursor
    <3>1. staged'[s] = Tail(staged[cursor])
        BY <2>4, <1>1, <1>3 DEF TypeOK
    <3> QED BY <1>2, <1>3, <2>1, <2>2, <2>3, <2>4, <3>1 DEF ListOK, Listed
  <2>5. CASE s # cursor
    <3>1. staged'[s] = staged[s]
        BY <2>5, <1>1, <1>3 DEF TypeOK
    <3> QED BY <1>2, <1>3, <1>5, <2>1, <2>2, <2>3, <2>5, <3>1 DEF ListOK, Listed
  <2> QED BY <2>4, <2>5
<1>9. ProcessingInv'
    BY <1>1, <1>2, <1>3, <1>5, <1>6 DEF ProcessingInv, TypeOK
<1>10. ProgressInv'
  <2>1. ASSUME NEW q \in Obj PROVE Progress(q)'
    <3>1. CASE q = o
      <4>1. stage'[o] = n /\ handled'[o] = handled[o] \cup {n}
          BY <1>2, <1>3 DEF TypeOK
      <4>2. reason'[o] = reason[o] /\ reason[o] # NONE /\ handling' = o
          BY <1>3, <1>5
      <4>3. n > HARD_STOP_ELEMENTS => elements'[o] = {}
        <5> SUFFICES ASSUME n > HARD_STOP_ELEMENTS PROVE elements'[o] = {}
            OBVIOUS
        <5>1. n # HARD_STOP_ELEMENTS /\ elements[o] = {}
            BY <1>6
        <5> QED BY <5>1, <1>4
      <4> QED BY <4>1, <4>2, <4>3, <1>6, <3>1 DEF Progress
    <3>2. CASE q # o
      <4>1. q # handling
          BY <1>3, ObjAssumption
      <4> QED BY <3>2, <4>1, <1>3, <1>4, ProgressOf, ProgressUntouched DEF TypeOK
    <3> QED BY <3>1, <3>2
  <2> QED BY <2>1, ProgressOf
<1>11. MasterControllerWaits'
    BY <1>3 DEF MasterControllerWaits, Registered
<1> QED BY <1>7, <1>8, <1>9, <1>10, <1>11

\* What the `finally' clause does to the records, and nothing else.
LEMMA LeaveRecordStep ==
    ASSUME IInv, handling # NoObj, LeaveRecord(handling)
    PROVE  /\ reason' \in [Obj -> ResetReason] /\ stage' \in [Obj -> Stage]
           /\ elements' \in [Obj -> SUBSET Element]
           /\ staged' \in [ProcessedStage -> Seq(Obj)]
           /\ handled' \in [Obj -> SUBSET Stage]
           /\ handling' = NoObj /\ updateStage' = PENDING
           /\ cursor' \in 0..PROCESSING_COUNT
           /\ RecordsStagedOnce' /\ ProcessingInv' /\ ProgressInv'
<1> USE DEF IInv
<1> DEFINE h == handling
<1>1. /\ h \in Obj /\ NoObj \notin Obj /\ processing /\ cursor < PROCESSING_COUNT
      /\ reason[h] # NONE
      /\ stage[h] \in {DESTROY, RESTART} \/ stage[h] \in ProcessedStage
    BY ObjAssumption, ProgressOf DEF ProcessingInv, TypeOK, Progress
<1>2. handling' = NoObj /\ updateStage' = PENDING /\ cursor' \in 0..PROCESSING_COUNT
    BY <1>1 DEF LeaveRecord, TypeOK
<1>3. ProcessingInv'
    BY <1>2 DEF ProcessingInv
<1>4. CASE stage[h] \in {DESTROY, RESTART}
  <2>1. /\ reason' = [reason EXCEPT ![h] = NONE]
        /\ stage' = [stage EXCEPT ![h] = PENDING]
        /\ elements' = [elements EXCEPT ![h] = {}]
        /\ handled' = [handled EXCEPT ![h] = {}]
        /\ staged' = staged
      BY <1>4 DEF LeaveRecord
  <2>2. /\ reason' \in [Obj -> ResetReason] /\ stage' \in [Obj -> Stage]
        /\ elements' \in [Obj -> SUBSET Element]
        /\ staged' \in [ProcessedStage -> Seq(Obj)]
        /\ handled' \in [Obj -> SUBSET Stage]
      BY <2>1 DEF TypeOK
  <2>3. RecordsStagedOnce'
    <3> SUFFICES ASSUME NEW s \in ProcessedStage
                 PROVE  ListOK(s)' /\ \A q \in Obj : Listed(q, s)'
        BY StagedOnceListsNext
    <3>1. ListOK(s) /\ \A q \in Obj : Listed(q, s)
        BY StagedOnceLists
    <3>2. ListOK(s)' /\ staged'[s] = staged[s]
        BY <3>1, <2>1 DEF ListOK
    <3>3. \A q \in Obj : q # h => reason'[q] = reason[q] /\ stage'[q] = stage[q]
        BY <2>1 DEF TypeOK
    <3>4. reason'[h] = NONE
        BY <1>1, <2>1 DEF TypeOK
    <3>5. ASSUME NEW q \in Obj PROVE Listed(q, s)'
      <4>1. CASE q = h
          BY <4>1, <3>1, <3>2, <3>4 DEF Listed
      <4>2. CASE q # h
          BY <4>2, <3>1, <3>2, <3>3, <1>1, <1>2 DEF Listed
      <4> QED BY <4>1, <4>2
    <3> QED BY <3>2, <3>5
  <2>4. ASSUME NEW q \in Obj PROVE Progress(q)'
    <3>1. CASE q = h
        BY <3>1, <2>1, <2>2, ProgressPending DEF TypeOK
    <3>2. CASE q # h
        BY <3>2, <2>1, ProgressOf, ProgressUntouched DEF TypeOK
    <3> QED BY <3>1, <3>2
  <2> QED BY <1>2, <1>3, <2>2, <2>3, <2>4, ProgressOf
<1>5. CASE stage[h] \in ProcessedStage
  <2>1. /\ staged' = [staged EXCEPT ![stage[h]] = Append(@, h)]
        /\ UNCHANGED <<reason, stage, elements, handled>>
      BY <1>5 DEF LeaveRecord
  <2>2. /\ staged[stage[h]] \in Seq(Obj) /\ NoRepeats(staged[stage[h]])
        /\ ~Holds(staged[stage[h]], h)
      BY <1>1, <1>5, StagedOnceLists DEF TypeOK, ListOK, Listed
  <2>3. /\ Append(staged[stage[h]], h) \in Seq(Obj)
        /\ NoRepeats(Append(staged[stage[h]], h))
        /\ \A y : Holds(Append(staged[stage[h]], h), y)
                     <=> Holds(staged[stage[h]], y) \/ y = h
      BY <1>1, <2>2, AppendHolds
  <2>4. /\ reason' \in [Obj -> ResetReason] /\ stage' \in [Obj -> Stage]
        /\ elements' \in [Obj -> SUBSET Element]
        /\ staged' \in [ProcessedStage -> Seq(Obj)]
        /\ handled' \in [Obj -> SUBSET Stage]
      BY <2>1, <2>3 DEF TypeOK
  <2>5. RecordsStagedOnce'
    <3> SUFFICES ASSUME NEW s \in ProcessedStage
                 PROVE  ListOK(s)' /\ \A q \in Obj : Listed(q, s)'
        BY StagedOnceListsNext
    <3>1. ListOK(s) /\ \A q \in Obj : Listed(q, s)
        BY StagedOnceLists
    <3>2. CASE s = stage[h]
      <4>1. staged'[s] = Append(staged[stage[h]], h)
          BY <3>2, <2>1 DEF TypeOK
      <4> QED BY <4>1, <3>1, <3>2, <2>1, <2>3, <1>1, <1>2 DEF ListOK, Listed
    <3>3. CASE s # stage[h]
      <4>1. staged'[s] = staged[s]
          BY <3>3, <2>1 DEF TypeOK
      <4> QED BY <4>1, <3>1, <3>3, <2>1, <1>1, <1>2 DEF ListOK, Listed
    <3> QED BY <3>2, <3>3
  <2>6. ASSUME NEW q \in Obj PROVE Progress(q)'
      BY <2>1, <1>5, ProgressOf, ProgressUntouched
  <2> QED BY <1>2, <1>3, <2>4, <2>5, <2>6, ProgressOf
<1> QED BY <1>1, <1>4, <1>5

LEMMA CallbackEndsStep ==
    ASSUME IInv, CallbackReturns \/ CallbackRaises
    PROVE  IInv'
<1> USE DEF IInv
<1>1. /\ handling # NoObj /\ LeaveRecord(handling) /\ DestroyOutcome
      /\ UNCHANGED <<processing, gathering, hung, resetInProgress, scheduled, requests>>
      /\ pokedSims' \subseteq Sims
    BY DEF CallbackReturns, CallbackRaises, InCallback, PokeLater, TypeOK
<1>2. /\ reason' \in [Obj -> ResetReason] /\ stage' \in [Obj -> Stage]
      /\ elements' \in [Obj -> SUBSET Element]
      /\ staged' \in [ProcessedStage -> Seq(Obj)]
      /\ handled' \in [Obj -> SUBSET Stage]
      /\ handling' = NoObj /\ updateStage' = PENDING
      /\ cursor' \in 0..PROCESSING_COUNT
      /\ RecordsStagedOnce' /\ ProcessingInv' /\ ProgressInv'
    BY <1>1, LeaveRecordStep
<1>3. inManager' \subseteq Obj
    BY <1>1 DEF DestroyOutcome, TypeOK
<1>4. TypeOK'
  <2>1. /\ UNCHANGED <<scheduled, requests>>
        /\ UNCHANGED <<processing, gathering, hung, resetInProgress>>
      BY <1>1
  <2>2. handling' \in Obj \cup {NoObj}
      BY <1>2
  <2>3. updateStage' \in Stage
    <3>1. updateStage' = PENDING
        BY <1>2
    <3> QED BY <3>1
  <2> QED BY <1>1, <1>2, <1>3, <2>1, <2>2, <2>3 DEF TypeOK
<1>5. MasterControllerWaits'
    BY <1>1 DEF MasterControllerWaits, ProcessingInv
<1> QED BY <1>2, <1>4, <1>5

LEMMA HardStopEscapesStep ==
    ASSUME IInv, HardStopEscapes
    PROVE  IInv'
<1> USE DEF IInv
<1> DEFINE h == handling
<1>1. /\ h \in Obj /\ NoObj \notin Obj /\ reason[h] # NONE
      /\ stage[h] \in ProcessedStage
    BY ObjAssumption DEF HardStopEscapes, InCallback, ProcessingInv, TypeOK
<1>2. /\ staged' = [staged EXCEPT ![stage[h]] = <<h>> \o @]
      /\ handling' = NoObj /\ updateStage' = PENDING /\ processing' = FALSE
      /\ cursor' = PROCESSING_COUNT
      /\ UNCHANGED <<reason, stage, elements, handled, gathering, hung, pokedSims,
                     resetInProgress, inManager, scheduled, requests>>
      /\ processing
    BY DEF HardStopEscapes, InCallback, ProcessingInv, world
<1>3. /\ staged[stage[h]] \in Seq(Obj) /\ NoRepeats(staged[stage[h]])
      /\ ~Holds(staged[stage[h]], h)
    BY <1>1, StagedOnceLists DEF TypeOK, ListOK, Listed
<1>4. /\ <<h>> \o staged[stage[h]] \in Seq(Obj)
      /\ NoRepeats(<<h>> \o staged[stage[h]])
      /\ \A y : Holds(<<h>> \o staged[stage[h]], y)
                   <=> Holds(staged[stage[h]], y) \/ y = h
    BY <1>1, <1>3, ConsHolds
<1>5. TypeOK'
  <2>1. staged' \in [ProcessedStage -> Seq(Obj)]
      BY <1>1, <1>2, <1>4 DEF TypeOK
  <2>2. handling' \in Obj \cup {NoObj} /\ processing' \in BOOLEAN
      BY <1>2
  <2>3. updateStage' \in Stage /\ cursor' \in 0..PROCESSING_COUNT
    <3>1. updateStage' = PENDING /\ cursor' = PROCESSING_COUNT
        BY <1>2
    <3> QED BY <3>1
  <2>4. /\ UNCHANGED <<reason, stage, elements, handled, pokedSims, inManager,
                       scheduled, requests>>
        /\ UNCHANGED <<gathering, hung, resetInProgress>>
      BY <1>2
  <2> QED BY <2>1, <2>2, <2>3, <2>4 DEF TypeOK
<1>6. RecordsStagedOnce'
  <2> SUFFICES ASSUME NEW s \in ProcessedStage
               PROVE  ListOK(s)' /\ \A q \in Obj : Listed(q, s)'
      BY StagedOnceListsNext
  <2>1. ListOK(s) /\ \A q \in Obj : Listed(q, s)
      BY StagedOnceLists
  <2>2. CASE s = stage[h]
    <3>1. staged'[s] = <<h>> \o staged[stage[h]]
        BY <2>2, <1>2 DEF TypeOK
    <3> QED BY <3>1, <2>1, <2>2, <1>1, <1>2, <1>4 DEF ListOK, Listed
  <2>3. CASE s # stage[h]
    <3>1. staged'[s] = staged[s]
        BY <2>3, <1>2 DEF TypeOK
    <3> QED BY <3>1, <2>1, <2>3, <1>1, <1>2 DEF ListOK, Listed
  <2> QED BY <2>2, <2>3
<1>7. ProcessingInv'
    BY <1>2 DEF ProcessingInv
<1>8. ProgressInv'
  <2>1. ASSUME NEW q \in Obj PROVE Progress(q)'
      BY <1>1, <1>2, ProgressOf, ProgressUntouched
  <2> QED BY <2>1, ProgressOf
<1>9. MasterControllerWaits'
    BY <1>2 DEF MasterControllerWaits
<1> QED BY <1>5, <1>6, <1>7, <1>8, <1>9

LEMMA NextPreservesIInv == IInv /\ [Next]_vars => IInv'
<1> SUFFICES ASSUME IInv, [Next]_vars PROVE IInv'
    OBVIOUS
<1>1. CASE Trigger
    BY <1>1, TriggerNewStep, TriggerAgainStep DEF Trigger
<1>2. CASE Gather
    BY <1>2, GatherKnownStep, GatherNewStep DEF Gather
<1>3. CASE Loop
    BY <1>3, OtherSteps, ProcessOneRecordStep DEF Loop
<1>4. CASE CallbackEnds
    BY <1>4, CallbackEndsStep, HardStopEscapesStep DEF CallbackEnds
<1>5. CASE TriggerBatch \/ EndGather \/ Elements \/ ResumeAfterHardStop
    BY <1>5, OtherSteps
<1>6. CASE UNCHANGED vars
    BY <1>6 DEF vars, record, loop, world, IInv, TypeOK, RecordsStagedOnce, Waiting,
            ProcessingInv, ProgressInv, MasterControllerWaits, Registered
<1> QED BY <1>1, <1>2, <1>3, <1>4, <1>5, <1>6 DEF Next

LEMMA Invariance == Spec => []IInv
<1> QED BY InitIInv, NextPreservesIInv, PTL DEF Spec

\* Type correctness of the service.
THEOREM TypeCorrect == Spec => []TypeOK
<1>1. IInv => TypeOK
    BY DEF IInv
<1> QED BY <1>1, Invariance, PTL

\* No record is ever lost or listed twice, whatever the callbacks request,
\* raise or stop (_restage_record, _change_record_stage).
THEOREM StagedOnce == Spec => []RecordsStagedOnce
<1>1. IInv => RecordsStagedOnce
    BY DEF IInv
<1> QED BY <1>1, Invariance, PTL

\* No Sim is reset or destroyed while an element its record took over has not
\* been told to stop (HARD_STOP_ELEMENTS of _process_one_record).
THEOREM ElementsStopped == Spec => []ElementsStoppedFirst
<1>1. IInv => ElementsStoppedFirst
    BY DEF IInv, ProgressInv, ElementsStoppedFirst
<1> QED BY <1>1, Invariance, PTL

\* Every record that reaches its last stage was detached, sent and reset under
\* its final reason (the stages of _process_one_record).
THEOREM FullReset == Spec => []FullResetBeforeEnd
<1>1. ASSUME IInv, handling # NoObj, stage[handling] \in {DESTROY, RESTART}
      PROVE  {EARLY_DETACHMENT, SEND_RESET_OP, INTERNAL_STATE_RESET}
                 \subseteq handled[handling]
  <2>1. handling \in Obj
      BY <1>1 DEF IInv, TypeOK
  <2> QED BY <1>1, <2>1 DEF IInv, ProgressInv
<1>2. IInv => FullResetBeforeEnd
    BY <1>1 DEF FullResetBeforeEnd
<1> QED BY <1>2, Invariance, PTL

\* The master controller is released only when no record and no Sim to restart
\* is left (on_reset_begin and on_reset_end of _process).
THEOREM ControllerWaits == Spec => []MasterControllerWaits
<1>1. IInv => MasterControllerWaits
    BY DEF IInv
<1> QED BY <1>1, Invariance, PTL

-----------------------------------------------------------------------------
(* What a step may do to the reasons: the action property and the          *)
(* refinement both rest on the four lemmas that follow.                    *)

LEMMA StartingMaps ==
    ASSUME IInv, StartProcessing
    PROVE  resetInProgress' = resetInProgress
           \/ (~resetInProgress /\ resetInProgress' = TRUE)
BY DEF StartProcessing, IInv, TypeOK

\* A request either raises the reason of one live object or leaves all as is.
LEMMA UpdateMaps ==
    ASSUME IInv, NEW o \in Obj, NEW r \in Requests, UpdateRecord(o, r)
    PROVE  \/ reason' = reason
           \/ /\ o \in inManager /\ reason[o] < r
              /\ reason' = [reason EXCEPT ![o] = r]
BY DEF UpdateRecord, UpgradeRecord, Upgrades, Accepts

LEMMA AddMaps ==
    ASSUME IInv, NEW o \in Obj, NEW r \in Requests, AddNewRecord(o, r)
    PROVE  /\ o \in inManager /\ reason[o] < r /\ reason[o] = NONE
           /\ reason' = [reason EXCEPT ![o] = r]
BY DEF AddNewRecord, IsNew, Accepts

\* When a callback ends, at most the record of the loop is completed, and its
\* object is gone only if its destruction was asked for.
LEMMA CallbackMaps ==
    ASSUME IInv, CallbackEnds
    PROVE  /\ resetInProgress' = resetInProgress /\ resetInProgress
           /\ \/ reason' = reason /\ inManager' = inManager
              \/ /\ handling \in Obj /\ reason[handling] # NONE
                 /\ stage[handling] \in {DESTROY, RESTART}
                 /\ stage[handling] = RESTART => reason[handling] # BEING_DESTROYED
                 /\ reason' = [reason EXCEPT ![handling] = NONE]
                 /\ \/ inManager' = inManager
                    \/ reason[handling] = BEING_DESTROYED
                       /\ inManager' = inManager \ {handling}
<1>1. handling # NoObj /\ handling \in Obj
    BY DEF CallbackEnds, CallbackReturns, CallbackRaises, HardStopEscapes,
           InCallback, IInv, TypeOK
<1>2. processing /\ resetInProgress
    BY <1>1 DEF IInv, ProcessingInv, MasterControllerWaits
<1>3. CASE HardStopEscapes
  <2>1. reason' = reason /\ inManager' = inManager
      BY <1>3 DEF HardStopEscapes, world
  <2>2. resetInProgress' = resetInProgress
      BY <1>3 DEF HardStopEscapes, world
  <2> QED BY <1>2, <2>1, <2>2
<1>4. CASE CallbackReturns \/ CallbackRaises
  <2>1. LeaveRecord(handling) /\ DestroyOutcome /\ resetInProgress' = resetInProgress
      BY <1>4 DEF CallbackReturns, CallbackRaises
  <2>2. /\ reason[handling] # NONE
        /\ stage[handling] = RESTART => reason[handling] # BEING_DESTROYED
        /\ updateStage = DESTROY => reason[handling] = BEING_DESTROYED
                                    /\ stage[handling] = DESTROY
      BY <1>1 DEF IInv, ProcessingInv, ProgressInv
  <2>3. CASE stage[handling] \in {DESTROY, RESTART}
    <3>1. reason' = [reason EXCEPT ![handling] = NONE]
        BY <2>1, <2>3 DEF LeaveRecord
    <3>2. \/ inManager' = inManager
          \/ reason[handling] = BEING_DESTROYED /\ inManager' = inManager \ {handling}
        BY <2>1, <2>2 DEF DestroyOutcome
    <3> QED BY <1>1, <1>2, <2>1, <2>2, <2>3, <3>1, <3>2
  <2>4. CASE stage[handling] \notin {DESTROY, RESTART}
    <3>1. reason' = reason
        BY <2>1, <2>4 DEF LeaveRecord
    <3>2. inManager' = inManager
        BY <2>1, <2>2, <2>4 DEF DestroyOutcome
    <3> QED BY <1>2, <2>1, <3>1, <3>2
  <2> QED BY <2>3, <2>4
<1> QED BY <1>3, <1>4 DEF CallbackEnds

\* The remaining steps of the loop leave the reasons and the objects alone.
LEMMA LoopMaps ==
    ASSUME IInv, Loop
    PROVE  /\ reason' = reason /\ inManager' = inManager
           /\ \/ resetInProgress' = resetInProgress
              \/ resetInProgress /\ resetInProgress' = FALSE /\ Registered = {}
<1>1. CASE BeginPass \/ SkipStage
    BY <1>1 DEF BeginPass, SkipStage, record, world
<1>2. CASE ProcessOneRecord
    BY <1>2 DEF ProcessOneRecord, world
<1>3. CASE FinishProcessing
  <2>1. reason' = reason /\ inManager' = inManager
      BY <1>3 DEF FinishProcessing, record
  <2>2. resetInProgress /\ resetInProgress' = FALSE /\ Registered = {}
      BY <1>3 DEF FinishProcessing, BetweenRecords, IInv, MasterControllerWaits
  <2> QED BY <2>1, <2>2
<1> QED BY <1>1, <1>2, <1>3 DEF Loop

LEMMA RestMaps ==
    ASSUME IInv, TriggerBatch \/ EndGather \/ Elements \/ ResumeAfterHardStop
    PROVE  /\ reason' = reason /\ inManager' = inManager
           /\ \/ resetInProgress' = resetInProgress
              \/ ~resetInProgress /\ resetInProgress' = TRUE
<1>1. CASE TriggerBatch
    BY <1>1 DEF TriggerBatch, record, world
<1>2. CASE Elements
    BY <1>2 DEF Elements, ScheduleElement, ElementResumes, record
<1>3. CASE EndGather \/ ResumeAfterHardStop
  <2>1. reason' = reason /\ inManager' = inManager /\ StartProcessing
      BY <1>3 DEF EndGather, ResumeAfterHardStop, record
  <2> QED BY <2>1, StartingMaps
<1> QED BY <1>1, <1>2, <1>3

-----------------------------------------------------------------------------

(* The steps of Next, as steps of ResetPromise. *)

LEMMA TriggerImplements ==
    ASSUME IInv, Trigger \/ Gather
    PROVE  [Promise!PromiseNext]_(<<reason, inManager, resetInProgress>>)
<1>1. PICK o \in Obj, r \in Requests :
         TriggerNew(o, r) \/ TriggerAgain(o, r) \/ GatherKnown(o, r) \/ GatherNew(o, r)
    BY DEF Trigger, Gather
<1>2. inManager' = inManager
    BY <1>1 DEF TriggerNew, TriggerAgain, GatherKnown, GatherNew, world
<1>3. \/ resetInProgress' = resetInProgress
      \/ ~resetInProgress /\ resetInProgress' = TRUE /\ TriggerAgain(o, r)
    BY <1>1, StartingMaps DEF TriggerNew, TriggerAgain, GatherKnown, GatherNew, world
<1>4. \/ reason' = reason
      \/ /\ o \in inManager /\ reason[o] < r
         /\ reason' = [reason EXCEPT ![o] = r]
    BY <1>1, UpdateMaps, AddMaps DEF TriggerNew, TriggerAgain, GatherKnown, GatherNew
<1>5. r \in 1..3
    OBVIOUS
<1>6. CASE reason' = reason
    BY <1>2, <1>3, <1>6 DEF Promise!PromiseNext, Promise!Begin
<1>7. CASE /\ o \in inManager /\ reason[o] < r
           /\ reason' = [reason EXCEPT ![o] = r]
  <2>1. Promise!Request(o, r)
      BY <1>2, <1>7 DEF Promise!Request
  <2>2. resetInProgress' = resetInProgress \/ resetInProgress' = TRUE
      BY <1>3
  <2> QED BY <1>5, <2>1, <2>2 DEF Promise!PromiseNext, Promise!Destroy
<1> QED BY <1>4, <1>6, <1>7

LEMMA CallbackImplements ==
    ASSUME IInv, CallbackEnds
    PROVE  [Promise!PromiseNext]_(<<reason, inManager, resetInProgress>>)
<1>1. CASE reason' = reason /\ inManager' = inManager
    BY <1>1, CallbackMaps
<1>2. CASE ~(reason' = reason /\ inManager' = inManager)
  <2>1. Promise!Complete(handling) /\ handling \in Obj
      BY <1>2, CallbackMaps DEF Promise!Complete, Promise!Destroy
  <2> QED BY <2>1 DEF Promise!PromiseNext
<1> QED BY <1>1, <1>2

LEMMA LoopImplements ==
    ASSUME IInv, Loop
    PROVE  [Promise!PromiseNext]_(<<reason, inManager, resetInProgress>>)
<1>1. CASE resetInProgress' = resetInProgress
    BY <1>1, LoopMaps
<1>2. CASE resetInProgress' # resetInProgress
  <2>1. Promise!Release
      BY <1>2, LoopMaps DEF Promise!Release, Registered
  <2> QED BY <2>1 DEF Promise!PromiseNext
<1> QED BY <1>1, <1>2

LEMMA RestImplements ==
    ASSUME IInv, TriggerBatch \/ EndGather \/ Elements \/ ResumeAfterHardStop
    PROVE  [Promise!PromiseNext]_(<<reason, inManager, resetInProgress>>)
BY RestMaps DEF Promise!PromiseNext, Promise!Begin

\* A record whose object is to be destroyed is never restarted: it leaves the
\* service through DESTROY only (INTERNAL_STATE_RESET branch and `finally'
\* clause of _process_one_record, with the upgrades of _add_or_update_record).
THEOREM DestroyedNotRestarted == Spec => DestroyNeverRestarts
<1>1. ASSUME IInv, [Next]_vars, NEW o \in Obj,
             reason[o] = BEING_DESTROYED, reason'[o] = NONE
      PROVE  stage[o] = DESTROY
  <2>0. reason \in [Obj -> ResetReason]
      BY <1>1 DEF IInv, TypeOK
  <2>1. reason' # reason
      BY <1>1
  <2>2. CASE Trigger \/ Gather
    <3>1. PICK p \in Obj, r \in Requests :
             TriggerNew(p, r) \/ TriggerAgain(p, r) \/ GatherKnown(p, r) \/ GatherNew(p, r)
        BY <2>2 DEF Trigger, Gather
    <3>2. reason' = [reason EXCEPT ![p] = r]
        BY <1>1, <2>1, <3>1, UpdateMaps, AddMaps
           DEF TriggerNew, TriggerAgain, GatherKnown, GatherNew
    <3> QED BY <1>1, <2>0, <3>2
  <2>3. CASE CallbackEnds
    <3>1. /\ stage[handling] \in {DESTROY, RESTART} /\ handling \in Obj
          /\ stage[handling] = RESTART => reason[handling] # BEING_DESTROYED
          /\ reason' = [reason EXCEPT ![handling] = NONE]
        BY <1>1, <2>1, <2>3, CallbackMaps
    <3>2. o = handling
        BY <1>1, <2>0, <3>1
    <3> QED BY <1>1, <3>1, <3>2
  <2>4. CASE Loop
      BY <1>1, <2>1, <2>4, LoopMaps
  <2>5. CASE TriggerBatch \/ EndGather \/ Elements \/ ResumeAfterHardStop
      BY <1>1, <2>1, <2>5, RestMaps
  <2>6. CASE UNCHANGED vars
      BY <2>1, <2>6 DEF vars, record
  <2> QED BY <1>1, <2>2, <2>3, <2>4, <2>5, <2>6 DEF Next
<1>2. IInv /\ [Next]_vars =>
        [\A o \in Obj :
           reason[o] = BEING_DESTROYED /\ reason'[o] = NONE => stage[o] = DESTROY]_vars
    BY <1>1
<1> QED BY <1>2, Invariance, PTL DEF Spec, DestroyNeverRestarts

\* The service implements ResetPromise: reasons only grow, only a requested
\* destruction removes an object, and the master controller is released only
\* when no record is left.
THEOREM Implements == Spec => KeepsPromise
<1>1. Init => Promise!PromiseInit
    BY DEF Init, Promise!PromiseInit
<1>2. IInv /\ [Next]_vars => [Promise!PromiseNext]_(<<reason, inManager, resetInProgress>>)
  <2> SUFFICES ASSUME IInv, [Next]_vars
               PROVE  [Promise!PromiseNext]_(<<reason, inManager, resetInProgress>>)
      OBVIOUS
  <2>1. CASE Trigger \/ Gather
      BY <2>1, TriggerImplements
  <2>2. CASE CallbackEnds
      BY <2>2, CallbackImplements
  <2>3. CASE Loop
      BY <2>3, LoopImplements
  <2>4. CASE TriggerBatch \/ EndGather \/ Elements \/ ResumeAfterHardStop
      BY <2>4, RestImplements
  <2>5. CASE UNCHANGED vars
      BY <2>5 DEF vars, record, world
  <2> QED BY <2>1, <2>2, <2>3, <2>4, <2>5 DEF Next
<1>3. IInv /\ [Next]_vars => [Promise!PromiseNext]_(Promise!promiseVars)
    BY <1>2 DEF Promise!promiseVars
<1> QED BY <1>1, <1>3, Invariance, PTL DEF Spec, KeepsPromise, Promise!PromiseSpec
=============================================================================
