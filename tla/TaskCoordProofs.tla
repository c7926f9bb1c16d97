--------------------------- MODULE TaskCoordProofs --------------------------
(***************************************************************************)
(* Proofs about TaskCoord for every value of its constants: the type       *)
(* invariant, and that TimerTask's uint8_t countdown never leaves          *)
(* 00:01 .. TIME_MIN:TIME_SEC, whatever the other tasks, the touch ISR and  *)
(* light sleep do in between.                                               *)
(***************************************************************************)
EXTENDS TaskCoord, TLAPS

USE CountdownAssumption, TextsAssumption

-----------------------------------------------------------------------------
(* The type invariant is inductive. *)
LEMMA TypeOKInit == Init => TypeOK
<1> SUFFICES ASSUME Init PROVE TypeOK
  OBVIOUS
<1>1. minute \in Byte /\ second \in Byte
  BY DEF Init, Byte
<1>2. Empty \in TextValue
  BY DEF TextValue
<1>3. text \in [FieldSet -> TextValue] /\ shown \in [FieldSet -> TextValue]
  BY <1>2 DEF Init
<1>4. isNew \in [FieldSet -> BOOLEAN]
  BY DEF Init
<1>5. /\ isStartTimer \in BOOLEAN /\ isWordRequest \in BOOLEAN
      /\ isTouchOccurred \in BOOLEAN /\ asleep \in BOOLEAN
      /\ displayOn \in BOOLEAN
      /\ reqWord \in Texts \cup {Empty} /\ reqSentence \in Texts \cup {Empty}
      /\ timerPc \in {"tick", "off", "sleep"}
      /\ mainPc \in {"poll", "reset", "word", "sentence", "clear"}
      /\ lcdPc \in {"touch", "cb", "draw", "clear"}
  BY Zenon DEF Init
<1>6. lcdField \in 1..3
  BY DEF Init
<1>7. QED
  BY <1>1, <1>3, <1>4, <1>5, <1>6, Zenon DEF TypeOK

(* Updating one entry of a function keeps it in its function set. *)
LEMMA ExceptType ==
  ASSUME NEW S, NEW T, NEW f \in [S -> T], NEW x, NEW v \in T
  PROVE  [f EXCEPT ![x] = v] \in [S -> T]
  OBVIOUS

LEMMA TypeOKStep == TypeOK /\ [Next]_vars => TypeOK'
<1> SUFFICES ASSUME TypeOK, [Next]_vars PROVE TypeOK'
  OBVIOUS
<1>1. CASE TimerTick
  <2>1. minute' \in Byte /\ second' \in Byte
    BY <1>1 DEF TimerTick, TypeOK, Byte
  <2>2. <<minute, second>> \in TextValue
    BY DEF TypeOK, TextValue
  <2>3. text' \in [FieldSet -> TextValue]
    BY <1>1, <2>2, ExceptType DEF TimerTick, TypeOK
  <2>4. isNew' \in [FieldSet -> BOOLEAN]
    BY <1>1, ExceptType DEF TimerTick, TypeOK
  <2>5. isWordRequest' \in BOOLEAN /\ isStartTimer' \in BOOLEAN
        /\ timerPc' \in {"tick", "off", "sleep"}
    BY <1>1 DEF TimerTick
  <2>6. QED
    BY <1>1, <2>1, <2>3, <2>4, <2>5, Zenon DEF TimerTick, TypeOK
<1>2. CASE TimerTurnOff \/ TimerSleep
  BY <1>2, Zenon DEF TimerTurnOff, TimerSleep, TypeOK
<1>3. CASE MainFetch
  <2>1. PICK r \in Responses :
          /\ reqWord' = CASE r.kind = "ok"      -> r.word
                          [] r.kind = "toolong" -> Empty
                          [] OTHER              -> reqWord
          /\ reqSentence' = IF r.kind = "ok" THEN r.sentence ELSE reqSentence
          /\ mainPc' = IF r.kind = "fail" THEN "clear" ELSE "reset"
    BY <1>3, Zenon DEF MainFetch
  <2>2. CASE r.kind = "ok"
    <3>1. r.word \in Texts /\ r.sentence \in Texts
      BY <2>2 DEF Responses
    <3>2. QED
      BY <1>3, <2>1, <2>2, <3>1, Zenon DEF MainFetch, TypeOK
  <2>3. CASE r.kind # "ok"
    <3>1. r.kind \in {"fail", "nobody", "toolong"}
      BY <2>3 DEF Responses
    <3>2. reqWord' \in Texts \cup {Empty} /\ reqSentence' = reqSentence
      BY <2>1, <2>3, <3>1 DEF TypeOK
    <3>3. mainPc' \in {"clear", "reset"}
      BY <2>1
    <3>4. QED
      BY <1>3, <3>2, <3>3, Zenon DEF MainFetch, TypeOK
  <2>4. QED
    BY <2>2, <2>3
<1>4. CASE MainResetBackground
  <2>1. [f \in FieldSet |-> Empty] \in [FieldSet -> TextValue]
    BY DEF TextValue
  <2>2. QED
    BY <1>4, <2>1, Zenon DEF MainResetBackground, TypeOK
<1>5. CASE MainSetWord \/ MainSetSentence
  <2>1. reqWord \in TextValue /\ reqSentence \in TextValue
    BY DEF TypeOK, TextValue
  <2>2. text' \in [FieldSet -> TextValue] /\ isNew' \in [FieldSet -> BOOLEAN]
    <3>1. CASE MainSetWord
      BY <3>1, <2>1, ExceptType DEF MainSetWord, TypeOK
    <3>2. CASE MainSetSentence
      BY <3>2, <2>1, ExceptType DEF MainSetSentence, TypeOK
    <3>3. QED
      BY <1>5, <3>1, <3>2
  <2>3. QED
    BY <1>5, <2>2, Zenon DEF MainSetWord, MainSetSentence, TypeOK
<1>6. CASE MainClearRequest
  BY <1>6, Zenon DEF MainClearRequest, TypeOK
<1>7. CASE LcdTouchPoll \/ LcdTouchClear
  BY <1>7, Zenon DEF LcdTouchPoll, LcdTouchClear, TypeOK
<1>8. CASE UpdateDraw
  <2> DEFINE f == Fields[lcdField]
  <2>1. f \in FieldSet
    BY DEF TypeOK, Fields, FieldSet
  <2>2. shown' \in [FieldSet -> TextValue]
    <3>1. text[f] \in TextValue
      BY <2>1 DEF TypeOK
    <3>2. shown' = [shown EXCEPT ![f] = text[f]] \/ shown' = shown
      BY <1>8, Zenon DEF UpdateDraw
    <3>3. QED
      BY <3>1, <3>2, ExceptType DEF TypeOK
  <2>3. lcdPc' \in {"touch", "cb", "draw", "clear"} /\ lcdField' \in 1..3
    BY <1>8 DEF UpdateDraw, NextField, TypeOK
  <2>4. QED
    BY <1>8, <2>2, <2>3, Zenon DEF UpdateDraw, TypeOK
<1>9. CASE UpdateClear
  <2>1. isNew' \in [FieldSet -> BOOLEAN]
    BY <1>9, ExceptType DEF UpdateClear, TypeOK
  <2>2. lcdPc' \in {"touch", "cb", "draw", "clear"} /\ lcdField' \in 1..3
    BY <1>9 DEF UpdateClear, NextField, TypeOK
  <2>3. QED
    BY <1>9, <2>1, <2>2, Zenon DEF UpdateClear, TypeOK
<1>10. CASE TouchISR \/ WakeUp
  <2>1. isTouchOccurred' \in BOOLEAN /\ asleep' \in BOOLEAN
    BY <1>10 DEF TouchISR, WakeUp, TypeOK
  <2>2. QED
    BY <1>10, <2>1, Zenon DEF TouchISR, WakeUp, TypeOK
<1>11. CASE UNCHANGED vars
  BY <1>11 DEF vars, TypeOK
<1>12. QED
  BY <1>1, <1>2, <1>3, <1>4, <1>5, <1>6, <1>7, <1>8, <1>9, <1>10, <1>11
     DEF Next, TimerStep, MainStep, LcdStep

(* TaskCoord's state always has the types the code gives it. *)
THEOREM TypeCorrect == Spec => []TypeOK
  BY TypeOKInit, TypeOKStep, PTL DEF Spec

-----------------------------------------------------------------------------
(***************************************************************************)
(* The countdown.  CountdownInRange is not inductive by itself: on a       *)
(* borrow TimerTick computes (min + 255) % 256 and tests it against 60, so *)
(* the step needs min <= TIME_MIN (then min - 1 <= 59 and the reset branch *)
(* is dead) and min, sec natural numbers (from TypeOK).                    *)
(***************************************************************************)
CountdownInv ==
  /\ TypeOK
  /\ CountdownInRange
  /\ minute \in 0..TIME_MIN

LEMMA CountdownInit == Init => CountdownInv
  BY TypeOKInit DEF Init, CountdownInv, CountdownInRange, Remaining

(* On a borrow (sec = 0 wraps to 255 > 60) with min >= 1, the minute is *)
(* taken without the reset branch and sec is reloaded.                  *)
LEMMA TickBorrow ==
  ASSUME NEW m \in 1..TIME_MIN
  PROVE  /\ (0 + 255) % 256 > 60
         /\ (m + 255) % 256 = m - 1
         /\ ~((m + 255) % 256 > 60)
  OBVIOUS

(* A tick with sec >= 1 is a plain decrement: no wrap, no borrow. *)
LEMMA TickNoBorrow ==
  ASSUME NEW s \in 1..SEC_RELOAD
  PROVE  /\ (s + 255) % 256 = s - 1
         /\ ~((s + 255) % 256 > 60)
  OBVIOUS

LEMMA CountdownStep == CountdownInv /\ [Next]_vars => CountdownInv'
<1> SUFFICES ASSUME CountdownInv, [Next]_vars PROVE CountdownInv'
  OBVIOUS
<1> DEFINE R == SEC_RELOAD + 1
           Total == TIME_MIN * R + TIME_SEC
<1>1. TypeOK'
  BY TypeOKStep DEF CountdownInv
<1>2. /\ second \in 0..SEC_RELOAD /\ minute \in 0..TIME_MIN
      /\ minute * R + second \in 1..Total
  BY DEF CountdownInv, CountdownInRange, Remaining
<1>3. SUFFICES /\ second' \in 0..SEC_RELOAD /\ minute' \in 0..TIME_MIN
               /\ minute' * R + second' \in 1..Total
  BY <1>1 DEF CountdownInv, CountdownInRange, Remaining
<1>4. CASE TimerTick /\ second = 0
  <2>1. minute \in 1..TIME_MIN
    BY <1>2, <1>4
  <2>2. minute' = minute - 1 /\ second' = SEC_RELOAD
    BY <1>4, <2>1, TickBorrow DEF TimerTick
  <2>3. QED
    BY <1>2, <1>4, <2>1, <2>2
<1>5. CASE TimerTick /\ second # 0 /\ minute = 0 /\ second = 1
  <2>1. minute' = TIME_MIN /\ second' = TIME_SEC
    BY <1>5, TickNoBorrow DEF TimerTick
  <2>2. QED
    BY <2>1
<1>6. CASE TimerTick /\ second # 0 /\ ~(minute = 0 /\ second = 1)
  <2>1. second \in 1..SEC_RELOAD
    BY <1>2, <1>6
  <2>2. minute' = minute /\ second' = second - 1
    BY <1>6, <2>1, TickNoBorrow DEF TimerTick
  <2>3. QED
    BY <1>2, <1>6, <2>1, <2>2
<1>7. CASE ~TimerTick
  <2>1. UNCHANGED <<minute, second>>
    BY <1>7 DEF Next, TimerStep, MainStep, LcdStep, vars,
                TimerTurnOff, TimerSleep, MainFetch, MainResetBackground,
                MainSetWord, MainSetSentence, MainClearRequest,
                LcdTouchPoll, LcdTouchClear, UpdateDraw, UpdateClear,
                TouchISR, WakeUp
  <2>2. QED
    BY <1>2, <2>1
<1>8. QED
  BY <1>4, <1>5, <1>6, <1>7

(* TimerTask's countdown stays within 00:01 and the start value, in every *)
(* behaviour and for every start value and minute length.               *)
THEOREM CountdownSafe == Spec => []CountdownInRange
<1>1. CountdownInv => CountdownInRange
  BY DEF CountdownInv
<1>2. QED
  BY CountdownInit, CountdownStep, <1>1, PTL DEF Spec

-----------------------------------------------------------------------------
(***************************************************************************)
(* Refinement of the session timer.  Each TimerTick is a Tick or the      *)
(* Expire of Countdown, a touch seen by LcdTouchTask is a Start, and every *)
(* other step leaves s_isStartTimer and min:sec alone.  The step needs     *)
(* CountdownInv: a borrow has a minute to take and reloads a nonzero sec.  *)
(***************************************************************************)
LEMMA SessionInit == Init => Session!Init
  BY DEF Init, Session!Init, Remaining

(* The counter part of TimerTick: the values its LET computes, and the  *)
(* new sec, min, run flag and word request.                               *)
TickDec    == (second + 255) % 256
TickWraps == TickDec > 60
TickSec    == IF TickWraps THEN SEC_RELOAD ELSE TickDec
TickMin0   == IF TickWraps THEN (minute + 255) % 256 ELSE minute
TickMin    == IF TickWraps /\ TickMin0 > 60 THEN TIME_MIN ELSE TickMin0
TickStop   == TickSec = 0 /\ TickMin = 0
TickCounters ==
  /\ isWordRequest' = (TickWraps \/ isWordRequest)
  /\ isStartTimer' = ~TickStop
  /\ minute' = IF TickStop THEN TIME_MIN ELSE TickMin
  /\ second' = IF TickStop THEN TIME_SEC ELSE TickSec

(* A TimerTick runs only while the countdown runs, and moves the counters *)
(* as TickCounters says.                                                  *)
LEMMA TickCountersStep ==
  TimerTick => isStartTimer /\ TickCounters
  BY Zenon DEF TimerTick, TickCounters, TickDec, TickWraps, TickSec,
               TickMin0, TickMin, TickStop

(* What one TimerTick does, in its three outcomes. *)
(* A borrow: sec wraps, a minute is taken, the word request is raised and *)
(* the countdown goes on.                                                 *)
LEMMA TickBorrowStep ==
  ASSUME minute \in 1..TIME_MIN, second = 0, TimerTick
  PROVE  /\ minute' = minute - 1 /\ second' = SEC_RELOAD
         /\ isStartTimer /\ isStartTimer' = TRUE /\ isWordRequest' = TRUE
<1>1. TickWraps /\ TickSec = SEC_RELOAD
  BY DEF TickWraps, TickDec, TickSec
<1>2. TickMin = minute - 1
  BY <1>1 DEF TickMin, TickMin0
<1>3. ~TickStop
  BY <1>1 DEF TickStop
<1>4. QED
  BY <1>1, <1>2, <1>3, TickCountersStep, Zenon DEF TickCounters

(* The tick at 00:01 stops the countdown and reloads the start value. *)
LEMMA TickStopStep ==
  ASSUME minute = 0, second = 1, TimerTick
  PROVE  /\ minute' = TIME_MIN /\ second' = TIME_SEC
         /\ isStartTimer /\ isStartTimer' = FALSE
<1>1. ~TickWraps /\ TickSec = 0 /\ TickMin = 0
  BY DEF TickWraps, TickDec, TickSec, TickMin, TickMin0
<1>2. TickStop
  BY <1>1 DEF TickStop
<1>3. QED
  BY <1>2, TickCountersStep, Zenon DEF TickCounters

(* Any other tick takes one second off sec and goes on. *)
LEMMA TickPlainStep ==
  ASSUME minute \in 0..TIME_MIN, second \in 1..SEC_RELOAD,
         ~(minute = 0 /\ second = 1), TimerTick
  PROVE  /\ minute' = minute /\ second' = second - 1
         /\ isStartTimer /\ isStartTimer' = TRUE
<1>1. ~TickWraps /\ TickSec = second - 1 /\ TickMin = minute
  BY TickNoBorrow DEF TickWraps, TickDec, TickSec, TickMin, TickMin0
<1>2. ~TickStop
  BY <1>1 DEF TickStop
<1>3. QED
  BY <1>1, <1>2, TickCountersStep, Zenon DEF TickCounters

LEMMA SessionStep ==
  CountdownInv /\ [Next]_vars
    => [Session!Next]_<<isStartTimer, Remaining(minute, second)>>
<1> SUFFICES ASSUME CountdownInv, [Next]_vars
             PROVE  [Session!Next]_<<isStartTimer, Remaining(minute, second)>>
  OBVIOUS
<1>0. isStartTimer \in BOOLEAN
  BY DEF CountdownInv, TypeOK
<1>1. /\ second \in 0..SEC_RELOAD /\ minute \in 0..TIME_MIN
      /\ minute * (SEC_RELOAD + 1) + second >= 1
  BY DEF CountdownInv, CountdownInRange, Remaining
<1>2. CASE TimerTick /\ second = 0
  <2>1. minute \in 1..TIME_MIN
    BY <1>1, <1>2
  <2>2. /\ minute' = minute - 1 /\ second' = SEC_RELOAD
        /\ isStartTimer /\ isStartTimer' = TRUE
    BY <1>2, <2>1, TickBorrowStep
  <2>3. minute * (SEC_RELOAD + 1) + second > 1
        /\ minute' * (SEC_RELOAD + 1) + second' = minute * (SEC_RELOAD + 1) + second - 1
    BY <1>1, <1>2, <2>1, <2>2
  <2>8. /\ Remaining(minute, second) = minute * (SEC_RELOAD + 1) + second
        /\ Remaining(minute, second)' = minute' * (SEC_RELOAD + 1) + second'
    BY DEF Remaining
  <2>4. Remaining(minute, second) > 1
        /\ Remaining(minute, second)' = Remaining(minute, second) - 1
    BY <1>1, <2>1, <2>2, <2>3, <2>8
  <2>5. isStartTimer = TRUE
    BY <1>0, <2>2
  <2>7. isStartTimer /\ isStartTimer' = isStartTimer
    BY <2>2, <2>5
  <2>6. QED
    BY <2>4, <2>7, Zenon DEF Session!Next, Session!Tick
<1>3. CASE TimerTick /\ minute = 0 /\ second = 1
  <2>1. /\ minute' = TIME_MIN /\ second' = TIME_SEC
        /\ isStartTimer /\ isStartTimer' = FALSE
    BY <1>3, TickStopStep
  <2>2. Remaining(minute, second) = 1
        /\ Remaining(minute, second)' = Remaining(TIME_MIN, TIME_SEC)
    BY <1>3, <2>1 DEF Remaining
  <2>3. QED
    BY <2>1, <2>2, Zenon DEF Session!Next, Session!Expire
<1>4. CASE TimerTick /\ second # 0 /\ ~(minute = 0 /\ second = 1)
  <2>1. second \in 1..SEC_RELOAD
    BY <1>1, <1>4
  <2>2. /\ minute' = minute /\ second' = second - 1
        /\ isStartTimer /\ isStartTimer' = TRUE
    BY <1>1, <1>4, <2>1, TickPlainStep
  <2>3. minute * (SEC_RELOAD + 1) + second > 1
    BY <1>1, <1>4, <2>1
  <2>4. QED
    BY <1>1, <2>1, <2>2, <2>3 DEF Session!Next, Session!Tick, Remaining
<1>5. CASE LcdTouchPoll /\ isTouchOccurred
  <2>1. isStartTimer' = TRUE /\ UNCHANGED <<minute, second>>
    BY <1>5 DEF LcdTouchPoll
  <2>2. QED
    BY <2>1 DEF Session!Next, Session!Start, Remaining
<1>6. CASE ~TimerTick /\ ~(LcdTouchPoll /\ isTouchOccurred)
  <2>1. UNCHANGED <<minute, second, isStartTimer>>
    BY <1>6 DEF Next, TimerStep, MainStep, LcdStep, vars,
                TimerTurnOff, TimerSleep, MainFetch, MainResetBackground,
                MainSetWord, MainSetSentence, MainClearRequest,
                LcdTouchPoll, LcdTouchClear, UpdateDraw, UpdateClear,
                TouchISR, WakeUp
  <2>2. QED
    BY <2>1
<1>7. QED
  BY <1>1, <1>2, <1>3, <1>4, <1>5, <1>6

(* TimerTask, LcdTouchTask and MainTask together implement the session    *)
(* timer of the spec: whatever the interleaving, the countdown only       *)
(* starts on a touch, loses exactly one second per TimerTick, and ends at  *)
(* 00:01 with the full start value rearmed.                               *)
THEOREM SessionRefined == Spec => CountdownRefined
<1>1. CountdownInv /\ [Next]_vars
        => [Session!Next]_<<isStartTimer, Remaining(minute, second)>>
  BY SessionStep
<1>2. QED
  BY SessionInit, CountdownInit, CountdownStep, <1>1, PTL
  DEF Spec, CountdownRefined, Session!Spec

-----------------------------------------------------------------------------
(* Spec, testable properties: a countdown started at 2:00 requests its    *)
(* word at the 1:00 boundary only.  With TV_TASK_TIME_SEC = 0 the first   *)
(* TimerTick of a session (min:sec as loaded at the start or reloaded at  *)
(* the last stop) already wraps sec and raises s_isWordRequest while the  *)
(* countdown reads TIME_MIN:00, whatever TIME_MIN and the minute length.  *)
THEOREM FirstTickRequestsWord ==
  ASSUME TIME_SEC = 0, TIME_MIN >= 1,
         minute = TIME_MIN, second = TIME_SEC, TimerTick
  PROVE  /\ isWordRequest'
         /\ minute' = TIME_MIN - 1 /\ second' = SEC_RELOAD
<1>1. minute \in 1..TIME_MIN /\ second = 0
  OBVIOUS
<1>2. QED
  BY <1>1, TickBorrowStep

-----------------------------------------------------------------------------
(***************************************************************************)
(* The time field.  TimerTask formats min:sec before it decrements them,   *)
(* so the text it writes is a value CountdownInRange already allows;       *)
(* LcdTouchTask only ever copies that text to the panel, and MainTask's   *)
(* ResetBackground blanks it.  TimeShownInRange is therefore inductive    *)
(* together with CountdownInv.                                             *)
(***************************************************************************)
(* A time text, if there is one, is a uint8_t pair within the countdown. *)
TimeOK(v) ==
  v # Empty => /\ v \in Byte \X Byte
               /\ Remaining(v[1], v[2]) \in 1..Remaining(TIME_MIN, TIME_SEC)

LEMMA TimeShownSplit ==
  TimeShownInRange <=> TimeOK(text["time"]) /\ TimeOK(shown["time"])
  BY DEF TimeShownInRange, TimeOK

(* The pair TimerTick writes is in range when the countdown is. *)
LEMMA TickTextOK ==
  CountdownInv => TimeOK(<<minute, second>>)
  BY DEF CountdownInv, CountdownInRange, TypeOK, TimeOK

LEMMA TimeShownStep ==
  CountdownInv /\ TimeShownInRange /\ [Next]_vars => TimeShownInRange'
<1> SUFFICES ASSUME CountdownInv, TimeShownInRange, [Next]_vars
             PROVE  TimeOK(text'["time"]) /\ TimeOK(shown'["time"])
  BY DEF TimeShownInRange, TimeOK
<1>1. TimeOK(text["time"]) /\ TimeOK(shown["time"])
  BY TimeShownSplit
<1>2. text \in [FieldSet -> TextValue] /\ shown \in [FieldSet -> TextValue]
  BY DEF CountdownInv, TypeOK
<1>3. CASE TimerTick
  <2>1. text'["time"] = <<minute, second>> /\ shown' = shown
    BY <1>2, <1>3 DEF TimerTick, FieldSet
  <2>2. QED
    BY <1>1, <2>1, TickTextOK
<1>4. CASE MainResetBackground
  <2>1. shown'["time"] = Empty /\ text' = text
    BY <1>4 DEF MainResetBackground, FieldSet
  <2>2. QED
    BY <1>1, <2>1 DEF TimeOK
<1>5. CASE MainSetWord \/ MainSetSentence
  <2>1. text'["time"] = text["time"] /\ shown' = shown
    BY <1>2, <1>5 DEF MainSetWord, MainSetSentence, FieldSet
  <2>2. QED
    BY <1>1, <2>1
<1>6. CASE UpdateDraw
  <2>1. shown'["time"] \in {shown["time"], text["time"]} /\ text' = text
    BY <1>2, <1>6 DEF UpdateDraw, FieldSet
  <2>2. QED
    BY <1>1, <2>1
<1>7. CASE ~TimerTick /\ ~MainResetBackground /\ ~MainSetWord
           /\ ~MainSetSentence /\ ~UpdateDraw
  <2>1. text' = text /\ shown' = shown
    BY <1>7 DEF Next, TimerStep, MainStep, LcdStep, vars,
                TimerTurnOff, TimerSleep, MainFetch, MainClearRequest,
                LcdTouchPoll, LcdTouchClear, UpdateClear, TouchISR, WakeUp
  <2>2. QED
    BY <1>1, <2>1
<1>8. QED
  BY <1>3, <1>4, <1>5, <1>6, <1>7

(* The time field, as sprintf writes it in TimerTask and as LcdTouchTask   *)
(* draws it, never reads 00:00 nor more than the start value, whatever    *)
(* the interleaving, the start value and the minute length.               *)
THEOREM TimeShownSafe == Spec => []TimeShownInRange
<1>1. Init => TimeShownInRange
  BY DEF Init, TimeShownInRange, FieldSet
<1>2. CountdownInv /\ TimeShownInRange /\ [Next]_vars
        => CountdownInv' /\ TimeShownInRange'
  BY CountdownStep, TimeShownStep
<1>3. QED
  BY <1>1, <1>2, CountdownInit, PTL DEF Spec

=============================================================================
