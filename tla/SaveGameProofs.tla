--------------------------- MODULE SaveGameProofs ---------------------------
(***************************************************************************)
(* That what a save reports, answers and leaves behind is its own, however *)
(* many saves supersede each other and whenever their operations complete. *)
(***************************************************************************)
EXTENDS SaveGame, SequenceTheorems, WellFoundedInduction, TLAPS

\* A set of positions that is not empty has a first one.
LEMMA FirstPosition ==
    ASSUME NEW I, I \subseteq Nat, I # {}
    PROVE  Min(I) \in I
  <1>1. \E x \in I : \A y \in I : ~ (<<y, x>> \in OpToRel(<, Nat))
    BY NatLessThanWellFounded, WFMin
  <1>2. PICK x \in I : \A y \in I : ~ (y < x)
    BY <1>1 DEF OpToRel
  <1>3. \A y \in I : x <= y
    BY <1>2
  <1> QED BY <1>3 DEF Min

\* A holder that lets go leaves a list of holders.
LEMMA RemoveFirstType ==
    ASSUME NEW S, NEW s \in Seq(S), NEW e
    PROVE  RemoveFirst(s, e) \in Seq(S)
  <1>1. CASE \E i \in 1..Len(s) : s[i] = e
    <2> DEFINE I == {i \in 1..Len(s) : s[i] = e}
               i == Min(I)
    <2>1. i \in 1..Len(s)
      <3>1. I # {} /\ I \subseteq Nat
        BY <1>1
      <3>2. Min(I) \in I
        BY <3>1, FirstPosition
      <3> QED BY <3>2
    <2>2. RemoveFirst(s, e) = SubSeq(s, 1, i - 1) \o SubSeq(s, i + 1, Len(s))
      BY <1>1 DEF RemoveFirst, RemoveAt, SelectInSeq
    <2> HIDE DEF i
    <2>3. SubSeq(s, 1, i - 1) \in Seq(S) /\ SubSeq(s, i + 1, Len(s)) \in Seq(S)
      BY <2>1, SubSeqProperties
    <2> QED BY <2>2, <2>3, ConcatProperties
  <1>2. CASE ~ \E i \in 1..Len(s) : s[i] = e
    BY <1>2 DEF RemoveFirst
  <1> QED BY <1>1, <1>2

-----------------------------------------------------------------------------
(* The inductive invariant. *)

\* The save that owns the timeline is the last one asked for and has not ended;
\* only a save that waits is woken.
CurrentIsLast ==
    /\ phase = "none" <=> current = NoSave
    /\ current # NoSave => current = issued /\ result[current] = NotEnded
    /\ woken => Started
    /\ \A s \in Save : s > issued => result[s] = NotEnded

\* The operations in flight are those of saves asked for, and of the current save
\* only the one it waits for, until it is woken.
OwnOperations ==
    /\ \A op \in inFlight : op[1] <= issued
    /\ <<current, "slot">> \in inFlight => phase = "writing" /\ ~woken
    /\ <<current, "autosave">> \in inFlight => phase = "autosaving" /\ ~woken

\* A save that is being written started later than the cooldown allows.
CurrentOffCooldown ==
    Started /\ request[current].check =>
        lastSave = NeverSaved \/ startedAt - lastSave > COOLDOWN

Inv ==
    /\ TypeOK /\ ErrorCodeIsCurrent /\ SuccessIsWritten /\ EveryoneAnswered
    /\ CurrentIsLast /\ OwnOperations /\ CurrentOffCooldown

LEMMA InitInv == Init => Inv
  <1> SUFFICES ASSUME Init PROVE Inv
    OBVIOUS
  <1>1. Disconnect \in Request
    BY DEF Request
  <1>2. TypeOK
    <2>1. <<>> \in Seq(Holder) /\ <<>> \in Seq({"success", "exception"})
      BY EmptySeq
    <2>2. request \in [Save -> Request] /\ answers \in [Save -> Seq({"success", "exception"})]
      BY <1>1, <2>1 DEF Init
    <2>3. result \in [Save -> SaveGameResult \cup {NotEnded, Superseded, TornDown}]
      BY DEF Init
    <2>4. issued \in 0..MaxSaves /\ current \in Save \cup {NoSave} /\ now \in Nat
          /\ startedAt \in 0..now /\ lastSave \in NeverSaved..now
      BY SaveBounds DEF Init, NeverSaved
    <2>5. readWriteLocked \in BOOLEAN /\ woken \in BOOLEAN /\ clientPresent \in BOOLEAN
      BY DEF Init
    <2>6. phase \in {"none", "scheduled", "writing", "autosaving"} /\ errorCode \in ErrorCodes
      BY DEF Init, ErrorCodes
    <2> QED BY <2>1, <2>2, <2>3, <2>4, <2>5, <2>6 DEF Init, TypeOK
  <1>3. ErrorCodeIsCurrent /\ SuccessIsWritten /\ EveryoneAnswered
    BY DEF Init, ErrorCodeIsCurrent, SuccessIsWritten, EveryoneAnswered,
           NO_ERROR, SAVE_TO_SLOT_FAILED, AUTOSAVE_TO_SLOT_FAILED, NotEnded, SUCCESS,
           Superseded, SaveGameResult, FAILED_ON_COOLDOWN,
           FAILED_EXCEPTION_OCCURRED, FAILED_SAVE_LOCKED
  <1>4. CurrentIsLast /\ OwnOperations /\ CurrentOffCooldown
    BY DEF Init, CurrentIsLast, OwnOperations, CurrentOffCooldown, Started, NoSave
  <1> QED BY <1>2, <1>3, <1>4 DEF Inv

-----------------------------------------------------------------------------
(* The steps, in the order of the module. *)

\* What a step of the locks or of the clock leaves alone.
LEMMA ElsewhereInv ==
    ASSUME Inv, TypeOK', UNCHANGED <<saveVars, inFlight, lastSave, clientPresent, historyVars>>
    PROVE  Inv'
  BY DEF Inv, ErrorCodeIsCurrent, SuccessIsWritten, EveryoneAnswered, CurrentIsLast,
         OwnOperations, CurrentOffCooldown, Started, saveVars, historyVars

LEMMA LocksInv ==
    ASSUME Inv,
           \/ \E h \in Holder : LockSave(h) \/ UnlockSave(h)
           \/ \E locked \in BOOLEAN : SetReadWriteLock(locked)
    PROVE  Inv'
  <1>1. TypeOK
    BY DEF Inv
  <1>2. ASSUME NEW h \in Holder, LockSave(h) PROVE Inv'
    <2>1. TypeOK'
      BY <1>1, <1>2 DEF LockSave, TypeOK, saveVars, historyVars
    <2> QED BY <1>2, <2>1, ElsewhereInv DEF LockSave
  <1>3. ASSUME NEW h \in Holder, UnlockSave(h) PROVE Inv'
    <2>1. RemoveFirst(saveLocks, h) \in Seq(Holder)
      BY <1>1, RemoveFirstType DEF TypeOK
    <2>2. shown' \in Holder \cup {NoHolder}
      BY <1>1, <1>3, <2>1 DEF UnlockSave, ShownAfterUnlock, Last, TypeOK
    <2>3. TypeOK'
      BY <1>1, <1>3, <2>1, <2>2 DEF UnlockSave, TypeOK, saveVars, historyVars
    <2> QED BY <1>3, <2>3, ElsewhereInv DEF UnlockSave
  <1>4. ASSUME NEW locked \in BOOLEAN, SetReadWriteLock(locked) PROVE Inv'
    <2>1. TypeOK'
      BY <1>1, <1>4 DEF SetReadWriteLock, TypeOK, saveVars, historyVars
    <2> QED BY <1>4, <2>1, ElsewhereInv DEF SetReadWriteLock
  <1> QED BY <1>2, <1>3, <1>4

LEMMA TickInv == ASSUME Inv, TickServerClock PROVE Inv'
  <1>1. TypeOK'
    BY DEF Inv, TickServerClock, TypeOK, lockVars, saveVars, historyVars
  <1> QED BY <1>1, ElsewhereInv DEF TickServerClock

\* The codes with which a save can end are no other than results.
LEMMA Results ==
    /\ NotEnded \notin SaveGameResult /\ Superseded \notin SaveGameResult
    /\ TornDown \notin SaveGameResult
    /\ NotEnded # Superseded /\ NotEnded # TornDown /\ Superseded # TornDown
    /\ SUCCESS \in SaveGameResult
    /\ SUCCESS # FAILED_ON_COOLDOWN
    /\ FAILED_ON_COOLDOWN \in SaveGameResult
    /\ FAILED_EXCEPTION_OCCURRED \in SaveGameResult \ {FAILED_ON_COOLDOWN, SUCCESS}
    /\ FAILED_SAVE_LOCKED \in SaveGameResult \ {FAILED_ON_COOLDOWN, SUCCESS}
    /\ NO_ERROR # SAVE_TO_SLOT_FAILED /\ NO_ERROR # AUTOSAVE_TO_SLOT_FAILED
    /\ SAVE_TO_SLOT_FAILED # AUTOSAVE_TO_SLOT_FAILED
  BY DEF NotEnded, Superseded, TornDown, SaveGameResult, SUCCESS, FAILED_ON_COOLDOWN,
         FAILED_EXCEPTION_OCCURRED, FAILED_SAVE_LOCKED, NO_ERROR,
         SAVE_TO_SLOT_FAILED, AUTOSAVE_TO_SLOT_FAILED

\* A disconnect that has no answer yet has exactly one once it is answered.
LEMMA AnsweredOnce ==
    ASSUME TypeOK, NEW s \in Save, NEW code \in {"success", "exception"}
    PROVE  /\ Answered(s, code) \in [Save -> Seq({"success", "exception"})]
           /\ Len(Answered(s, code)[s]) = Len(answers[s]) + 1
           /\ \A t \in Save \ {s} : Answered(s, code)[t] = answers[t]
           /\ Len(answers[s]) = 0 => Answered(s, code)[s] = <<code>>
  <1>1. answers[s] \in Seq({"success", "exception"})
    BY DEF TypeOK
  <1>2. Append(answers[s], code) \in Seq({"success", "exception"})
        /\ Len(Append(answers[s], code)) = Len(answers[s]) + 1
    BY <1>1, AppendProperties
  <1>3. Answered(s, code) = [answers EXCEPT ![s] = Append(answers[s], code)]
    BY DEF Answered
  <1>4. Len(answers[s]) = 0 => Append(answers[s], code) = <<code>>
    <2> DEFINE S == {"success", "exception"}
    <2>1. Len(answers[s]) = 0 => answers[s] = <<>>
      BY <1>1, EmptySeq
    <2>2. <<>> \in Seq(S) /\ <<code>> \in Seq(S)
      BY EmptySeq
    <2>3. Append(<<>>, code) = <<>> \o <<code>> /\ <<>> \o <<code>> = <<code>>
      BY <2>2, AppendIsConcat, ConcatEmptySeq
    <2> QED BY <2>1, <2>3
  <1> QED BY <1>2, <1>3, <1>4 DEF TypeOK

\* A request tears down the save before it: started, its generator is closed and
\* answers its client; not started, it says nothing.
LEMMA SaveUsingInv == ASSUME Inv, NEW r \in Request, SaveUsing(r) PROVE Inv'
  <1> DEFINE ended == IF Started THEN TornDown ELSE Superseded
  <1>1. TypeOK /\ current \in Save \cup {NoSave} /\ issued + 1 \in Save
        /\ issued \in Nat /\ (current # NoSave => current \in Save /\ current <= issued)
    BY SaveBounds DEF Inv, TypeOK, CurrentIsLast, SaveUsing, Save
  <1>2. /\ result' \in [Save -> SaveGameResult \cup {NotEnded, Superseded, TornDown}]
        /\ current # NoSave => result'[current] = ended
        /\ \A s \in Save : s # current => result'[s] = result[s]
    BY <1>1 DEF SaveUsing, TearDown, Superseding, TypeOK, Save, NoSave
  <1>3. /\ request' \in [Save -> Request] /\ request'[issued + 1] = r
        /\ \A s \in Save : s # issued + 1 => request'[s] = request[s]
    BY <1>1 DEF SaveUsing, TypeOK
  <1>4. \A s \in Save : s # current => answers'[s] = answers[s]
    BY <1>1, AnsweredOnce DEF SaveUsing, TearDown
  <1>5. /\ answers' \in [Save -> Seq({"success", "exception"})]
        /\ current # NoSave =>
             Len(answers'[current]) = IF Started /\ request[current].leaving
                                      THEN Len(answers[current]) + 1
                                      ELSE Len(answers[current])
    <2>1. CASE current # NoSave /\ Started /\ request[current].leaving
      <3>1. answers' = Answered(current, "exception") /\ current \in Save
        BY <1>1, <2>1 DEF SaveUsing, TearDown
      <3> QED BY <1>1, <2>1, <3>1, AnsweredOnce
    <2>2. CASE ~(current # NoSave /\ Started /\ request[current].leaving)
      <3>1. answers' = answers
        BY <2>2 DEF SaveUsing, TearDown
      <3> QED BY <1>1, <2>2, <3>1 DEF TypeOK
    <2> QED BY <2>1, <2>2
  <1>6. TypeOK'
    <2>1. errorCode' \in ErrorCodes
      BY <1>1 DEF SaveUsing, CloseErrorCode, TypeOK, ErrorCodes
    <2>2. issued' \in 0..MaxSaves /\ current' \in Save
      BY <1>1 DEF SaveUsing, Save
    <2> QED BY <1>1, <1>2, <1>3, <1>5, <2>1, <2>2 DEF SaveUsing, TypeOK, lockVars
  <1>7. ErrorCodeIsCurrent'
    BY Results DEF Inv, SaveUsing, CloseErrorCode, ErrorCodeIsCurrent, Started
  <1>8. SuccessIsWritten'
    <2>1. \A s \in Save : result'[s] = SUCCESS => result[s] = SUCCESS
      BY <1>2, Results DEF Save, NoSave
    <2> QED BY <2>1 DEF Inv, SaveUsing, SuccessIsWritten
  <1>9. EveryoneAnswered'
    <2>1. \A s \in Save : Len(answers'[s]) =
             IF request'[s].leaving /\ result'[s] \notin {NotEnded, Superseded} THEN 1 ELSE 0
      <3> SUFFICES ASSUME NEW s \in Save
                   PROVE  Len(answers'[s]) =
                            IF request'[s].leaving /\ result'[s] \notin {NotEnded, Superseded}
                            THEN 1 ELSE 0
        OBVIOUS
      <3>1. CASE s = current
        <4>1. s # NoSave /\ s # issued + 1 /\ result[s] = NotEnded /\ request'[s] = request[s]
          BY <1>1, <1>3, <3>1 DEF Inv, CurrentIsLast, NoSave, Save
        <4>2. Len(answers[s]) = 0
          BY <4>1 DEF Inv, EveryoneAnswered
        <4>3. Len(answers'[s]) = IF Started /\ request[s].leaving THEN 1 ELSE 0
          BY <1>5, <3>1, <4>1, <4>2
        <4>4. result'[s] \notin {NotEnded, Superseded} <=> Started
          BY <1>2, <3>1, <4>1, Results
        <4> QED BY <4>1, <4>3, <4>4
      <3>2. CASE s = issued + 1
        BY <1>1, <1>2, <1>4, <3>2, Results
           DEF Inv, EveryoneAnswered, CurrentIsLast, NoSave, Save
      <3>3. CASE s # current /\ s # issued + 1
        BY <1>2, <1>3, <1>4, <3>3 DEF Inv, EveryoneAnswered
      <3> QED BY <3>1, <3>2, <3>3
    <2>2. clientPresent' \/ \E s \in Save : answers'[s] = <<"success">>
      <3> SUFFICES ASSUME ~clientPresent
                   PROVE  \E s \in Save : answers'[s] = <<"success">>
        BY DEF SaveUsing
      <3>1. PICK s \in Save : answers[s] = <<"success">>
        BY DEF Inv, EveryoneAnswered
      <3>2. Len(answers[s]) = 1
        BY <3>1
      <3>3. s # current
        BY <1>1, <3>2, Results DEF Inv, EveryoneAnswered, CurrentIsLast, NoSave, Save
      <3> QED BY <1>4, <3>1, <3>3
    <2>3. told' = {s \in Save : /\ request'[s].tell
                                /\ result'[s] \in SaveGameResult \ {FAILED_ON_COOLDOWN}}
      <3>1. \A s \in Save :
               (request'[s].tell /\ result'[s] \in SaveGameResult \ {FAILED_ON_COOLDOWN})
               <=> (request[s].tell /\ result[s] \in SaveGameResult \ {FAILED_ON_COOLDOWN})
        BY <1>1, <1>2, <1>3, Results DEF Inv, CurrentIsLast, NoSave, Save
      <3> QED BY <3>1 DEF Inv, EveryoneAnswered, SaveUsing
    <2> QED BY <2>1, <2>2, <2>3 DEF EveryoneAnswered
  <1>10. CurrentIsLast'
    <2>1. \A s \in Save : s > issued + 1 => result'[s] = NotEnded
      BY <1>1, <1>2 DEF Inv, CurrentIsLast, Save, NoSave
    <2>2. result'[issued + 1] = NotEnded
      BY <1>1, <1>2 DEF Inv, CurrentIsLast, Save, NoSave
    <2> QED BY <1>1, <2>1, <2>2 DEF SaveUsing, CurrentIsLast, NoSave, Started, Save
  <1>11. OwnOperations'
    <2>1. \A op \in inFlight : op[1] \in Nat /\ op[1] <= issued
      BY <1>1 DEF Inv, OwnOperations, TypeOK, Operation, Save
    <2>2. \A kind : <<issued + 1, kind>> \notin inFlight
      BY <1>1, <2>1
    <2> QED BY <1>1, <2>1, <2>2 DEF SaveUsing, OwnOperations
  <1>12. CurrentOffCooldown'
    BY DEF SaveUsing, CurrentOffCooldown, Started
  <1> QED BY <1>6, <1>7, <1>8, <1>9, <1>10, <1>11, <1>12 DEF Inv

\* Whatever ends the current save with a result, it is the result, the report and
\* the answer of that save, and nothing of it is left for the next one.
LEMMA EndSaveInv ==
    ASSUME Inv, NEW code \in SaveGameResult \ {FAILED_ON_COOLDOWN}, current # NoSave,
           EndSave(code), UNCHANGED inFlight, lastSave' \in NeverSaved..now,
           code = SUCCESS => /\ <<current, "slot">> \notin inFlight
                             /\ <<current, "autosave">> \notin inFlight
    PROVE  Inv'
  <1>1. TypeOK /\ current \in Save /\ current = issued /\ result[current] = NotEnded
    BY DEF Inv, TypeOK, CurrentIsLast
  <1>a. Len(answers[current]) = 0
    BY <1>1 DEF Inv, EveryoneAnswered
  <1>2. /\ result' \in [Save -> SaveGameResult \cup {NotEnded, Superseded, TornDown}]
        /\ result'[current] = code
        /\ \A s \in Save : s # current => result'[s] = result[s]
    BY <1>1 DEF EndSave, TypeOK
  <1>3. /\ answers' \in [Save -> Seq({"success", "exception"})]
        /\ \A s \in Save \ {current} : answers'[s] = answers[s]
        /\ Len(answers'[current]) = IF request[current].leaving THEN 1 ELSE 0
        /\ clientPresent' \in BOOLEAN
        /\ clientPresent' \/ ~clientPresent \/ answers'[current] = <<"success">>
    <2>1. Len(answers[current]) = 0
      BY <1>a
    <2>2. CASE request[current].leaving
      <3>1. PICK c \in {"success", "exception"} :
               /\ answers' = Answered(current, c)
               /\ clientPresent' \in {clientPresent, clientPresent /\ c = "exception"}
        BY <2>2 DEF EndSave, Report, Leave
      <3>2. /\ answers' \in [Save -> Seq({"success", "exception"})]
            /\ \A s \in Save \ {current} : answers'[s] = answers[s]
            /\ Len(answers'[current]) = 1 /\ answers'[current] = <<c>>
        <4> DEFINE a == Answered(current, c)
        <4>1. /\ a \in [Save -> Seq({"success", "exception"})]
              /\ Len(a[current]) = Len(answers[current]) + 1
              /\ \A t \in Save \ {current} : a[t] = answers[t]
              /\ Len(answers[current]) = 0 => a[current] = <<c>>
          BY <1>1, AnsweredOnce
        <4> HIDE DEF a
        <4>2. answers' = a
          BY <3>1 DEF a
        <4> QED BY <2>1, <4>1, <4>2
      <3>3. /\ clientPresent' \in BOOLEAN
            /\ clientPresent' \/ ~clientPresent \/ c = "success"
        BY <1>1, <3>1 DEF TypeOK
      <3> QED BY <2>2, <3>2, <3>3
    <2>3. CASE ~request[current].leaving
      <3>1. answers' = answers /\ clientPresent' = clientPresent
        BY <2>3 DEF EndSave, Report
      <3> QED BY <1>1, <2>1, <2>3, <3>1 DEF TypeOK
    <2> QED BY <2>2, <2>3
  <1>4. /\ told' \subseteq Save
        /\ told' = IF request[current].tell THEN told \cup {current} ELSE told
    <2>1. request[current].leaving => ~request[current].tell
      <3>1. request[current] \in Request
        BY <1>1 DEF TypeOK
      <3>2. CASE request[current] = Disconnect
        BY <3>2 DEF Disconnect
      <3>3. CASE request[current] \in SaveCommand
        BY <3>3 DEF SaveCommand
      <3> QED BY <3>1, <3>2, <3>3 DEF Request
    <2>2. told' = IF request[current].tell THEN told \cup {current} ELSE told
      BY <2>1 DEF EndSave, Report
    <2> QED BY <1>1, <2>2 DEF TypeOK
  <1>5. TypeOK'
    BY <1>1, <1>2, <1>3, <1>4 DEF EndSave, DestroySaveTimeline, TypeOK, lockVars, ErrorCodes
  <1>6. ErrorCodeIsCurrent'
    BY Results DEF EndSave, DestroySaveTimeline, ErrorCodeIsCurrent
  <1>7. SuccessIsWritten'
    BY <1>1, <1>2 DEF Inv, SuccessIsWritten
  <1>8. EveryoneAnswered'
    <2>1. UNCHANGED request
      BY DEF EndSave, DestroySaveTimeline
    <2>2. \A s \in Save : Len(answers'[s]) =
             IF request'[s].leaving /\ result'[s] \notin {NotEnded, Superseded} THEN 1 ELSE 0
      BY <1>1, <1>2, <1>3, <2>1, Results, ZenonT(30) DEF Inv, EveryoneAnswered
    <2>3. clientPresent' \/ \E s \in Save : answers'[s] = <<"success">>
      <3>1. CASE ~clientPresent
        <4>1. PICK s \in Save : answers[s] = <<"success">>
          BY <3>1 DEF Inv, EveryoneAnswered
        <4>2. Len(answers[s]) = 1
          BY <4>1
        <4>3. s # current
          BY <1>a, <4>2
        <4> QED BY <1>3, <4>1, <4>3
      <3> QED BY <1>1, <1>3, <3>1
    <2>4. told' = {s \in Save : /\ request'[s].tell
                                /\ result'[s] \in SaveGameResult \ {FAILED_ON_COOLDOWN}}
      BY <1>1, <1>2, <1>4, <2>1, Results DEF Inv, EveryoneAnswered
    <2> QED BY <2>2, <2>3, <2>4 DEF EveryoneAnswered
  <1>9. CurrentIsLast'
    BY <1>1, <1>2 DEF Inv, CurrentIsLast, EndSave, DestroySaveTimeline, Save
  <1>10. OwnOperations'
    BY <1>1 DEF Inv, OwnOperations, EndSave, DestroySaveTimeline, TypeOK, Operation, Save, NoSave
  <1>11. CurrentOffCooldown'
    BY DEF EndSave, DestroySaveTimeline, CurrentOffCooldown, Started
  <1> QED BY <1>5, <1>6, <1>7, <1>8, <1>9, <1>10, <1>11 DEF Inv

LEMMA RunSaveEndsInv ==
    ASSUME Inv, FailLocked \/ FailToStart \/ FailAutosave \/ Succeed PROVE Inv'
  <1>1. TypeOK /\ (phase # "none" => current # NoSave)
    BY DEF Inv, CurrentIsLast
  <1>2. lastSave \in NeverSaved..now /\ startedAt \in NeverSaved..now
    BY <1>1 DEF TypeOK, NeverSaved
  <1>3. CASE FailLocked
    BY <1>1, <1>2, <1>3, EndSaveInv, Results DEF FailLocked
  <1>4. CASE FailToStart
    BY <1>1, <1>2, <1>4, EndSaveInv, Results DEF FailToStart
  <1>5. CASE FailAutosave
    BY <1>1, <1>2, <1>5, EndSaveInv, Results DEF FailAutosave
  <1>6. CASE Succeed
    <2>1. <<current, "slot">> \notin inFlight /\ <<current, "autosave">> \notin inFlight
      BY <1>6 DEF Inv, OwnOperations, Succeed, LastOperationDone
    <2>2. SUCCESS \in SaveGameResult \ {FAILED_ON_COOLDOWN}
      BY Results
    <2>3. lastSave' \in NeverSaved..now
      BY <1>2, <1>6 DEF Succeed
    <2> QED BY <1>1, <1>6, <2>1, <2>2, <2>3, EndSaveInv DEF Succeed, LastOperationDone
  <1> QED BY <1>3, <1>4, <1>5, <1>6

\* The generator finds the cooldown not over, and the save ends without a report.
LEMMA FailOnCooldownInv == ASSUME Inv, FailOnCooldown PROVE Inv'
  <1>1. /\ TypeOK /\ current \in Save /\ current = issued /\ result[current] = NotEnded
        /\ phase = "scheduled"
    BY DEF Inv, TypeOK, CurrentIsLast, FailOnCooldown
  <1>2. /\ result' \in [Save -> SaveGameResult \cup {NotEnded, Superseded, TornDown}]
        /\ result'[current] = FAILED_ON_COOLDOWN
        /\ \A s \in Save : s # current => result'[s] = result[s]
    BY <1>1, Results DEF FailOnCooldown, TypeOK
  <1>3. ~request[current].leaving
    <2>1. request[current] \in Request /\ request[current].check
      BY <1>1 DEF TypeOK, FailOnCooldown, OnCooldown
    <2>2. request[current] # Disconnect
      BY <2>1 DEF Disconnect
    <2>3. request[current] \in SaveCommand
      BY <2>1, <2>2 DEF Request
    <2> QED BY <2>3 DEF SaveCommand
  <1>4. TypeOK'
    BY <1>1, <1>2 DEF FailOnCooldown, DestroySaveTimeline, TypeOK, lockVars
  <1>5. ErrorCodeIsCurrent'
    BY <1>1 DEF Inv, ErrorCodeIsCurrent, FailOnCooldown, DestroySaveTimeline
  <1>6. SuccessIsWritten'
    BY <1>1, <1>2, Results DEF Inv, SuccessIsWritten, FailOnCooldown
  <1>7. EveryoneAnswered'
    <2>1. UNCHANGED <<request, answers, clientPresent, told>>
      BY DEF FailOnCooldown, DestroySaveTimeline
    <2>2. Len(answers[current]) = 0
      BY <1>1 DEF Inv, EveryoneAnswered
    <2>3. \A s \in Save : Len(answers'[s]) =
             IF request'[s].leaving /\ result'[s] \notin {NotEnded, Superseded} THEN 1 ELSE 0
      BY <1>2, <1>3, <2>1, <2>2 DEF Inv, EveryoneAnswered
    <2>4. told' = {s \in Save : /\ request'[s].tell
                                /\ result'[s] \in SaveGameResult \ {FAILED_ON_COOLDOWN}}
      BY <1>1, <1>2, <2>1, Results DEF Inv, EveryoneAnswered
    <2> QED BY <2>1, <2>3, <2>4 DEF Inv, EveryoneAnswered
  <1>8. CurrentIsLast'
    BY <1>1, <1>2 DEF Inv, CurrentIsLast, FailOnCooldown, DestroySaveTimeline, Save
  <1>9. OwnOperations'
    BY <1>1 DEF Inv, OwnOperations, FailOnCooldown, DestroySaveTimeline, TypeOK, Operation,
                Save, NoSave
  <1>10. CurrentOffCooldown'
    BY DEF FailOnCooldown, DestroySaveTimeline, CurrentOffCooldown, Started
  <1> QED BY <1>4, <1>5, <1>6, <1>7, <1>8, <1>9, <1>10 DEF Inv

\* What hands an operation of the current save over, or completes one, ends no save.
LEMMA OperationInv ==
    ASSUME Inv, TypeOK', ErrorCodeIsCurrent', UNCHANGED <<issued, current, request>>,
           UNCHANGED <<clientPresent, historyVars>>, phase = "none" <=> phase' = "none",
           woken' => Started', OwnOperations', CurrentOffCooldown',
           \A op \in inFlight' : op \in inFlight \/ (op[1] = current /\ current # NoSave)
    PROVE  Inv'
  <1>1. SuccessIsWritten'
    <2> SUFFICES ASSUME NEW s \in Save, result[s] = SUCCESS, NEW kind \in {"slot", "autosave"}
                 PROVE  <<s, kind>> \notin inFlight'
      BY DEF SuccessIsWritten, historyVars
    <2>1. <<s, kind>> \notin inFlight
      BY DEF Inv, SuccessIsWritten
    <2>2. s # current \/ current = NoSave
      BY Results DEF Inv, CurrentIsLast
    <2> QED BY <2>1, <2>2
  <1>2. EveryoneAnswered'
    BY DEF Inv, EveryoneAnswered, historyVars
  <1>3. CurrentIsLast'
    BY DEF Inv, CurrentIsLast, historyVars
  <1> QED BY <1>1, <1>2, <1>3 DEF Inv

LEMMA WriteInv == ASSUME Inv, WriteSlot \/ WriteAutosave PROVE Inv'
  <1>1. TypeOK /\ current \in Save /\ current # NoSave
    BY DEF Inv, TypeOK, CurrentIsLast, WriteSlot, WriteAutosave, Save, NoSave
  <1>2. CASE WriteSlot
    <2>1. TypeOK'
      BY <1>1, <1>2 DEF WriteSlot, TakeTime, TypeOK, lockVars, historyVars, Operation, ErrorCodes
    <2>2. ErrorCodeIsCurrent'
      BY <1>2, Results DEF WriteSlot, ErrorCodeIsCurrent
    <2>3. ~woken
      BY <1>2 DEF Inv, CurrentIsLast, Started, WriteSlot
    <2>4. OwnOperations'
      BY <1>1, <1>2, <2>3 DEF Inv, OwnOperations, CurrentIsLast, WriteSlot, TypeOK
    <2>5. CurrentOffCooldown'
      <3>1. request[current].check => lastSave = NeverSaved \/ ~(now - lastSave <= COOLDOWN)
        BY <1>2 DEF WriteSlot, OnCooldown
      <3> QED BY <1>1, <1>2, <3>1, CooldownAssumption
              DEF WriteSlot, TakeTime, CurrentOffCooldown, TypeOK, NeverSaved
    <2> QED BY <1>1, <1>2, <2>1, <2>2, <2>3, <2>4, <2>5, OperationInv DEF WriteSlot
  <1>3. CASE WriteAutosave
    <2>1. TypeOK'
      <3>1. inFlight' \subseteq Operation /\ errorCode' \in ErrorCodes
        BY <1>1, <1>3 DEF WriteAutosave, TypeOK, Operation, ErrorCodes
      <3> QED BY <1>1, <1>3, <3>1 DEF WriteAutosave, TypeOK, lockVars, historyVars
    <2>2. ErrorCodeIsCurrent'
      BY <1>3, Results DEF WriteAutosave, ErrorCodeIsCurrent
    <2>3. OwnOperations'
      BY <1>1, <1>3 DEF Inv, OwnOperations, CurrentIsLast, WriteAutosave, TypeOK
    <2>4. CurrentOffCooldown'
      BY <1>3 DEF Inv, WriteAutosave, CurrentOffCooldown, Started
    <2> QED BY <1>1, <1>3, <2>1, <2>2, <2>3, <2>4, OperationInv DEF WriteAutosave
  <1> QED BY <1>2, <1>3

LEMMA CompleteInv == ASSUME Inv, NEW op \in Operation, Complete(op) PROVE Inv'
  <1>1. TypeOK /\ op \in inFlight /\ inFlight' \subseteq inFlight
    BY DEF Inv, Complete
  <1>a. UNCHANGED <<lockVars, issued, current, phase, request, startedAt, errorCode,
                    now, lastSave, clientPresent, historyVars>>
    BY DEF Complete
  <1>2. TypeOK'
    <2>1. woken' \in BOOLEAN
      BY DEF Complete, Started
    <2> QED BY <1>1, <1>a, <2>1 DEF TypeOK, lockVars, historyVars
  <1>3. ErrorCodeIsCurrent'
    BY DEF Inv, Complete, ErrorCodeIsCurrent
  <1>4. OwnOperations'
    <2>1. op = <<op[1], "slot">> \/ op = <<op[1], "autosave">>
      BY DEF Operation
    <2> QED BY <1>1, <2>1 DEF Inv, OwnOperations, Complete, Started
  <1>5. CurrentOffCooldown' /\ (woken' => Started')
    BY DEF Inv, Complete, CurrentIsLast, CurrentOffCooldown, Started
  <1>6. UNCHANGED <<issued, current, request>> /\ UNCHANGED <<clientPresent, historyVars>>
    BY <1>a
  <1>7. /\ phase = "none" <=> phase' = "none"
        /\ \A o \in inFlight' : o \in inFlight \/ (o[1] = current /\ current # NoSave)
    BY <1>1, <1>a
  <1> QED BY <1>2, <1>3, <1>4, <1>5, <1>6, <1>7, OperationInv

LEMMA NextInv == Inv /\ [Next]_vars => Inv'
  <1> SUFFICES ASSUME Inv, [Next]_vars PROVE Inv'
    OBVIOUS
  <1>1. CASE RunSave
    BY <1>1, RunSaveEndsInv, FailOnCooldownInv, WriteInv DEF RunSave
  <1>2. CASE UNCHANGED vars
    <2>1. TypeOK'
      BY <1>2 DEF Inv, TypeOK, vars, lockVars, saveVars, historyVars
    <2> QED BY <1>2, <2>1, ElsewhereInv DEF vars
  <1>3. ASSUME NEW r \in Request, SaveUsing(r) PROVE Inv'
    BY <1>3, SaveUsingInv
  <1>4. ASSUME NEW op \in Operation, Complete(op) PROVE Inv'
    BY <1>4, CompleteInv
  <1>5. CASE \/ \E h \in Holder : LockSave(h) \/ UnlockSave(h)
             \/ \E locked \in BOOLEAN : SetReadWriteLock(locked)
    BY <1>5, LocksInv
  <1>6. CASE TickServerClock
    BY <1>6, TickInv
  <1> QED BY <1>1, <1>2, <1>3, <1>4, <1>5, <1>6 DEF Next

-----------------------------------------------------------------------------
(* The theorems. *)

\* Every variable keeps its type, for any cooldown and any number of holders and saves.
THEOREM TypeCorrect == Spec => []TypeOK
  BY InitInv, NextInv, PTL DEF Spec, Inv

\* save_error_code always names the operation that is waited for.
THEOREM ErrorCodeStaysCurrent == Spec => []ErrorCodeIsCurrent
  BY InitInv, NextInv, PTL DEF Spec, Inv

\* No save is a success before all of its own operations were completed.
THEOREM SuccessStaysWritten == Spec => []SuccessIsWritten
  BY InitInv, NextInv, PTL DEF Spec, Inv

\* Whoever waits for an answer or a report gets that of its own save, once.
THEOREM EveryoneStaysAnswered == Spec => []EveryoneAnswered
  BY InitInv, NextInv, PTL DEF Spec, Inv

\* Saves that check the cooldown are further apart than it.
THEOREM CooldownStaysKept == Spec => CooldownKept
  <1>1. Inv /\ [Next]_vars =>
          [lastSave' # lastSave /\ lastSave # NeverSaved => lastSave' - lastSave > COOLDOWN]_vars
    <2> SUFFICES ASSUME Inv, Next, lastSave' # lastSave, lastSave # NeverSaved
                 PROVE  lastSave' - lastSave > COOLDOWN
      BY DEF vars
    <2>1. Succeed
      BY DEF Next, RunSave, LockSave, UnlockSave, SetReadWriteLock, SaveUsing, FailLocked,
             FailOnCooldown, WriteSlot, FailToStart, WriteAutosave, FailAutosave, Complete,
             TickServerClock
    <2> QED BY <2>1 DEF Inv, CurrentOffCooldown, Succeed, LastOperationDone, Started
  <1> QED BY <1>1, InitInv, NextInv, PTL DEF Spec, CooldownKept

\* The client shows saving as possible only when no holder forbids it.
THEOREM ShownUnlockedStaysUnlocked == Spec => []ShownUnlockedIsUnlocked
  <1>1. Init => ShownUnlockedIsUnlocked
    BY DEF Init, ShownUnlockedIsUnlocked
  <1>2. Inv /\ ShownUnlockedIsUnlocked /\ [Next]_vars => ShownUnlockedIsUnlocked'
    <2> SUFFICES ASSUME Inv, ShownUnlockedIsUnlocked, [Next]_vars
                 PROVE  ShownUnlockedIsUnlocked'
      OBVIOUS
    <2>1. ASSUME NEW h \in Holder, LockSave(h) PROVE ShownUnlockedIsUnlocked'
      BY <2>1, HolderAssumption DEF LockSave, ShownUnlockedIsUnlocked
    <2>2. ASSUME NEW h \in Holder, UnlockSave(h) PROVE ShownUnlockedIsUnlocked'
      <3> DEFINE r == RemoveFirst(saveLocks, h)
      <3>1. r \in Seq(Holder)
        BY RemoveFirstType DEF Inv, TypeOK
      <3>2. r # <<>> => Last(r) \in Holder
        BY <3>1, EmptySeq, ElementOfSeq DEF Last
      <3> QED BY <2>2, <3>2, HolderAssumption
              DEF UnlockSave, ShownAfterUnlock, ShownUnlockedIsUnlocked
    <2>3. CASE UNCHANGED <<saveLocks, shown>>
      BY <2>3 DEF ShownUnlockedIsUnlocked
    <2> QED BY <2>1, <2>2, <2>3
            DEF Next, vars, lockVars, RunSave, SetReadWriteLock, SaveUsing, FailLocked,
                FailOnCooldown, WriteSlot, FailToStart, WriteAutosave, FailAutosave, Succeed,
                EndSave, Complete, TickServerClock
  <1> QED BY <1>1, <1>2, InitInv, NextInv, PTL DEF Spec
=============================================================================
