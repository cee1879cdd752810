------------------------- MODULE AccountParserProofs -------------------------
(***************************************************************************)
(* What the parser of account answers makes of any answer, by induction    *)
(* over its tokens: the three loops of the parser are folds (FoldFacts),   *)
(* and a set of states that every element stays in, Closed, holds of the   *)
(* whole answer.  Three things follow, for answers of any size: details    *)
(* stay typed and only grow (AnswerGrows); unless the details overflow or  *)
(* a name misleads the parser, every id it stores is one of the answer's   *)
(* (AnswerKeepsOwnIds); and the first answer that fits is stored id by id, *)
(* with the number of variables of each (FirstRead).                       *)
(***************************************************************************)
EXTENDS AccountParser, FiniteSetTheorems, SequenceTheorems, TLAPS

Parse == INSTANCE FoldFacts WITH Op <- parse_element

LeaveOne(s, level) == IF InMap(s) /\ Last(s.open) = 0 THEN LeaveMap(s) ELSE s
Leave == INSTANCE FoldFacts WITH Op <- LeaveOne

FinishOne(s, level) == finish_map(s)
Finish == INSTANCE FoldFacts WITH Op <- FinishOne

(* The three loops of the parser are folds, of which FoldFacts says what   *)
(* they compute.                                                           *)
LEMMA ParserFolds ==
  /\ \A st : LeaveMaps(st) = Leave!Fold(st, st.open)
  /\ \A st : EndOfAnswer(st) = Finish!Fold(st, st.open)
  /\ \A st, tokens : FoldLeft(parse_element, st, tokens) = Parse!Fold(st, tokens)
<1>1. ASSUME NEW st PROVE LeaveMaps(st) = Leave!Fold(st, st.open)
  BY DEF LeaveMaps, Leave!Fold, FoldLeft, MapThenFoldSet, Max, Leave!FoldLeft, Leave!MapThenFoldSet, Leave!Max, LeaveOne
<1>2. ASSUME NEW st PROVE EndOfAnswer(st) = Finish!Fold(st, st.open)
  BY DEF EndOfAnswer, Finish!Fold, FoldLeft, MapThenFoldSet, Max, Finish!FoldLeft, Finish!MapThenFoldSet, Finish!Max, FinishOne
<1>3. ASSUME NEW st, NEW tokens PROVE FoldLeft(parse_element, st, tokens) = Parse!Fold(st, tokens)
  BY DEF Parse!Fold, FoldLeft, MapThenFoldSet, Max, Parse!FoldLeft, Parse!MapThenFoldSet, Parse!Max
<1> QED
  BY <1>1, <1>2, <1>3

-----------------------------------------------------------------------------
(* The states of the parser.  A step inside of an application is taken     *)
(* only while there is room for one.                                       *)
AppSteps ==
  {"APPL_ID", "APP_SCH", "APP_SCH_NUI", "APP_SCH_NBS", "APP_KV", "APP_KV_VAR", "APP_KV_TYPE",
   "APP_KV_SLICE", "APP_KV_INT"}

OtherSteps == {"ROOT", "ALGO", "APPL", "EBASE", "ERN", "TSCH", "TSCH_NUI"}

AppIdxs == 0..(AppsMaxCount - 1)

Amounts == (0 - IntRange \div 2)..(IntRange \div 2 - 1)

Details ==
  [amount : Amounts, app_idx : 0..AppsMaxCount, apps : [AppIdxs -> [app_id : Nat, kv_count : Nat]]]

(* What reading never does: fewer applications, fewer variables, or another *)
(* application when there is no more room.                                  *)
Grows(a, b) ==
  /\ a.app_idx <= b.app_idx
  /\ \A j \in AppIdxs : a.apps[j].kv_count <= b.apps[j].kv_count
  /\ a.app_idx = AppsMaxCount => b.apps = a.apps

(* What grew and grew again has grown.                                     *)
LEMMA GrowsTransitive ==
  ASSUME NEW a \in Details, NEW b \in Details, NEW c \in Details, Grows(a, b), Grows(b, c)
  PROVE  Grows(a, c)
<1>1. a.app_idx = AppsMaxCount => b.app_idx = AppsMaxCount
  BY AccountParserAssumption DEF Grows, Details
<1>2. ASSUME NEW j \in AppIdxs PROVE a.apps[j].kv_count <= c.apps[j].kv_count
  BY DEF Grows, Details
<1> QED
  BY AccountParserAssumption, <1>1, <1>2 DEF Grows, Details

(* Details that do not change have grown by nothing.                       *)
LEMMA GrowsReflexive ==
  ASSUME NEW a \in Details
  PROVE  Grows(a, a)
BY DEF Grows, Details

(* A number cast to int32_t is an amount that the details can hold.        *)
LEMMA AmountFits ==
  ASSUME NEW v \in Nat
  PROVE  AsInt32(v) \in Amounts
<1> DEFINE h == IntRange \div 2
<1>1. h \in Nat /\ IntRange = 2 * h /\ IntRange \in Nat \ {0}
  BY AccountParserAssumption
<1> HIDE DEF h
<1>2. (v + h) % IntRange \in 0..(IntRange - 1)
  BY <1>1
<1> QED
  BY <1>1, <1>2 DEF AsInt32, Amounts, h

(* A state, written by its parts.                                          *)
Parts(step, open, err, account) == [step |-> step, open |-> open, err |-> err, account |-> account]

(* Between two elements there is no error.                                 *)
At(step, open, account) == Parts(step, open, FALSE, account)

-----------------------------------------------------------------------------
(* The operations of the parser, part by part.                             *)
CountOf(a) == a.apps[a.app_idx].kv_count

IsKey(step, s) == step \in DOMAIN StepOfKey /\ s \in DOMAIN StepOfKey[step]

StringStep(step, s) ==
  IF IsKey(step, s) THEN StepOfKey[step][s] ELSE IF step = "APP_KV" THEN "APP_KV_VAR" ELSE step

StringErr(step, err, a, s) ==
  IF IsKey(step, s) THEN err
  ELSE IF step = "APP_KV" THEN CountOf(a) >= AppsKvMaxCount
  ELSE step \in {"ROOT", "APPL_ID", "APP_SCH", "APP_KV_VAR"}

(* What a string does to a parser: the step moves, nothing is stored.      *)
LEMMA StringParts ==
  ASSUME NEW step, NEW open, NEW err, NEW a, NEW s
  PROVE  string_element(Parts(step, open, err, a), s) =
           Parts(StringStep(step, s), open, StringErr(step, err, a, s), a)
<1> DEFINE st == Parts(step, open, err, a)
<1>0. st = [step |-> step, open |-> open, err |-> err, account |-> a]
      /\ st.step = step /\ st.open = open /\ st.err = err /\ st.account = a
  BY DEF Parts
<1> HIDE DEF st
<1>1. CASE IsKey(step, s)
  <2>1. string_element(st, s) = [st EXCEPT !.step = StepOfKey[step][s]]
    BY <1>0, <1>1 DEF string_element, IsKey
  <2> DEFINE next == StepOfKey[step][s]
  <2>2. [st EXCEPT !.step = next] = Parts(next, open, err, a)
    <3> HIDE DEF next
    <3> QED BY <1>0 DEF Parts
  <2>3. StringStep(step, s) = next /\ StringErr(step, err, a, s) = err
    BY <1>1 DEF StringStep, StringErr
  <2> HIDE DEF next
  <2> QED BY <2>1, <2>2, <2>3 DEF st, next
<1>2. CASE ~IsKey(step, s)
  <2>1. CASE step = "APP_KV"
    <3> DEFINE full == CountOf(a) >= AppsKvMaxCount
    <3>1. string_element(st, s) = [st EXCEPT !.step = "APP_KV_VAR", !.err = full]
      BY <1>0, <1>2, <2>1 DEF string_element, IsKey, KvCount, CountOf
    <3>2. StringStep(step, s) = "APP_KV_VAR" /\ StringErr(step, err, a, s) = full
      BY <1>2, <2>1 DEF StringStep, StringErr
    <3> HIDE DEF full
    <3>3. [st EXCEPT !.step = "APP_KV_VAR"] = Parts("APP_KV_VAR", open, err, a)
      BY <1>0 DEF Parts
    <3>4. [Parts("APP_KV_VAR", open, err, a) EXCEPT !.err = full] = Parts("APP_KV_VAR", open, full, a)
      BY DEF Parts
    <3>5. [st EXCEPT !.step = "APP_KV_VAR", !.err = full] = [[st EXCEPT !.step = "APP_KV_VAR"] EXCEPT !.err = full]
      OBVIOUS
    <3> QED BY <3>1, <3>2, <3>3, <3>4, <3>5 DEF st
  <2>2. CASE step # "APP_KV"
    <3> DEFINE lost == step \in {"ROOT", "APPL_ID", "APP_SCH", "APP_KV_VAR"}
    <3>1. string_element(st, s) = [st EXCEPT !.err = lost]
      BY <1>0, <1>2, <2>2 DEF string_element, IsKey
    <3>2. StringStep(step, s) = step /\ StringErr(step, err, a, s) = lost
      BY <1>2, <2>2 DEF StringStep, StringErr
    <3> HIDE DEF lost
    <3>3. [st EXCEPT !.err = lost] = Parts(step, open, lost, a)
      BY <1>0 DEF Parts
    <3> QED BY <3>1, <3>2, <3>3 DEF st
  <2> QED BY <2>1, <2>2
<1> QED
  BY <1>1, <1>2

(* A string leaves the step inside an application only where there is a    *)
(* place for one.                                                          *)
LEMMA StringKept ==
  ASSUME NEW a \in Details, NEW step \in AppSteps \cup OtherSteps, NEW err \in BOOLEAN, NEW s,
         step \in AppSteps => a.app_idx < AppsMaxCount
  PROVE  /\ StringStep(step, s) \in AppSteps \cup OtherSteps
         /\ StringErr(step, err, a, s) \in BOOLEAN
         /\ StringStep(step, s) \in AppSteps => a.app_idx < AppsMaxCount
<1>1. StringStep(step, s) \in AppSteps \cup OtherSteps
  BY DEF StringStep, IsKey, StepOfKey, AppSteps, OtherSteps
<1>2. StringStep(step, s) \in AppSteps => step \in AppSteps
  BY DEF StringStep, IsKey, StepOfKey, AppSteps, OtherSteps
<1>3. StringErr(step, err, a, s) \in BOOLEAN
  <2>1. CASE IsKey(step, s)
    BY <2>1 DEF StringErr
  <2>2. CASE ~IsKey(step, s) /\ step = "APP_KV"
    BY <2>2 DEF StringErr
  <2>3. CASE ~IsKey(step, s) /\ step # "APP_KV"
    BY <2>3 DEF StringErr
  <2> QED BY <2>1, <2>2, <2>3
<1> QED
  BY <1>1, <1>2, <1>3

NoRoomFor(step, a) ==
  \/ step = "APPL" /\ a.app_idx >= AppsMaxCount
  \/ step \in {"APP_KV_TYPE", "APP_KV_INT"} /\ CountOf(a) > AppsKvMaxCount

UIntStep(step, a) ==
  IF ~NoRoomFor(step, a) /\ step \in DOMAIN StepOfUInt THEN StepOfUInt[step] ELSE step

UIntErr(step, err, a) == IF NoRoomFor(step, a) THEN TRUE ELSE err

WithAmount(a, v) == [a EXCEPT !.amount = v]

WithId(a, app) == [a EXCEPT !.apps[a.app_idx] = [app_id |-> app, kv_count |-> @.kv_count]]

UIntAccount(step, a, n) ==
  IF NoRoomFor(step, a) THEN a
  ELSE IF step = "ALGO" THEN WithAmount(a, AsInt32(n))
  ELSE IF step = "APPL" THEN WithId(a, n)
  ELSE a

(* What a number does to a parser: the step, the error and the account     *)
(* move as the three operators say.                                        *)
LEMMA UIntParts ==
  ASSUME NEW step, NEW open, NEW err, NEW a, NEW n
  PROVE  uint_element(Parts(step, open, err, a), n) =
           Parts(UIntStep(step, a), open, UIntErr(step, err, a), UIntAccount(step, a, n))
<1> DEFINE st == Parts(step, open, err, a)
           next == IF st.step \in DOMAIN StepOfUInt THEN [st EXCEPT !.step = StepOfUInt[@]] ELSE st
           to == IF step \in DOMAIN StepOfUInt THEN StepOfUInt[step] ELSE step
<1>0. /\ st = [step |-> step, open |-> open, err |-> err, account |-> a]
      /\ st.step = step /\ st.open = open /\ st.err = err /\ st.account = a
  BY DEF Parts
<1>1. NoRoom(st) <=> NoRoomFor(step, a)
  <2> HIDE DEF st
  <2> QED BY <1>0 DEF NoRoom, NoRoomFor, KvCount, CountOf
<1>2. next = Parts(to, open, err, a)
  <2> HIDE DEF st
  <2>1. CASE step \in DOMAIN StepOfUInt
    <3> DEFINE s == StepOfUInt[step]
    <3>1. next = [st EXCEPT !.step = s] /\ to = s
      BY <1>0, <2>1
    <3> HIDE DEF s, next, to
    <3>2. [st EXCEPT !.step = s] = Parts(s, open, err, a)
      BY <1>0 DEF Parts
    <3> QED BY <3>1, <3>2
  <2>2. CASE step \notin DOMAIN StepOfUInt
    <3>1. next = st /\ to = step
      BY <1>0, <2>2
    <3> QED BY <3>1 DEF st
  <2> QED BY <2>1, <2>2
<1>3. uint_element(st, n) =
        CASE NoRoom(st) -> [st EXCEPT !.err = TRUE]
          [] ~NoRoom(st) /\ st.step = "ALGO" -> [next EXCEPT !.account.amount = AsInt32(n)]
          [] ~NoRoom(st) /\ st.step = "APPL" -> WithApp(next, n)
          [] OTHER -> next
  BY DEF uint_element
<1> HIDE DEF st, next, to
<1>4. CASE NoRoom(st)
  <2>1. uint_element(st, n) = [st EXCEPT !.err = TRUE]
    BY <1>3, <1>4
  <2>2. ASSUME NEW e PROVE [st EXCEPT !.err = e] = Parts(step, open, e, a)
    BY <1>0 DEF Parts
  <2> QED BY <1>1, <1>4, <2>1, <2>2 DEF UIntStep, UIntErr, UIntAccount, st
<1>5. CASE ~NoRoom(st)
  <2>1. /\ UIntStep(step, a) = to /\ UIntErr(step, err, a) = err
    BY <1>1, <1>5 DEF UIntStep, UIntErr, to
  <2>2. CASE step = "ALGO"
    <3> DEFINE v == AsInt32(n)
    <3>1. uint_element(st, n) = [next EXCEPT !.account.amount = v]
      BY <1>0, <1>3, <1>5, <2>2
    <3> HIDE DEF v
    <3>2. [next EXCEPT !.account.amount = v] = Parts(to, open, err, WithAmount(a, v))
      BY <1>2 DEF Parts, WithAmount
    <3>3. UIntAccount(step, a, n) = WithAmount(a, v)
      BY <1>1, <1>5, <2>2 DEF UIntAccount, v
    <3> QED BY <2>1, <3>1, <3>2, <3>3 DEF st
  <2>3. CASE step = "APPL"
    <3>1. uint_element(st, n) = WithApp(next, n)
      BY <1>0, <1>3, <1>5, <2>3
    <3>2. WithApp(next, n) = Parts(to, open, err, WithId(a, n))
      BY <1>2 DEF Parts, WithApp, WithId
    <3>3. UIntAccount(step, a, n) = WithId(a, n)
      BY <1>1, <1>5, <2>3 DEF UIntAccount
    <3> QED BY <2>1, <3>1, <3>2, <3>3 DEF st
  <2>4. CASE step # "ALGO" /\ step # "APPL"
    <3>1. uint_element(st, n) = next
      BY <1>0, <1>3, <1>5, <2>4
    <3>2. UIntAccount(step, a, n) = a
      BY <1>1, <1>5, <2>4 DEF UIntAccount
    <3> QED BY <1>2, <2>1, <3>1, <3>2 DEF st
  <2> QED BY <2>2, <2>3, <2>4
<1> QED
  BY <1>4, <1>5

OneMore(a) == [a EXCEPT !.apps[a.app_idx].kv_count = @ + 1]

NextApp(a) == [a EXCEPT !.app_idx = @ + 1]

FinishStep(step) ==
  IF step = "APP_KV_VAR" THEN "APP_KV"
  ELSE IF step \in {"APP_KV", "APP_SCH"} THEN "APPL_ID"
  ELSE IF step = "APPL_ID" THEN "APPL"
  ELSE "ROOT"

FinishAccount(step, a) ==
  IF step = "APP_KV_VAR" THEN OneMore(a) ELSE IF step = "APPL_ID" THEN NextApp(a) ELSE a

(* What the end of a map does to a parser: the step moves, and the end of  *)
(* an application counts it.                                               *)
LEMMA FinishParts ==
  ASSUME NEW step, NEW open, NEW err, NEW a
  PROVE  finish_map(Parts(step, open, err, a)) = Parts(FinishStep(step), open, err, FinishAccount(step, a))
<1> DEFINE st == Parts(step, open, err, a)
<1>0. /\ st = [step |-> step, open |-> open, err |-> err, account |-> a]
      /\ st.step = step
  BY DEF Parts
<1> HIDE DEF st
<1>1. finish_map(st) =
        CASE step = "APP_KV_VAR" -> WithVariable(st)
          [] step \in {"APP_KV", "APP_SCH"} -> [st EXCEPT !.step = "APPL_ID"]
          [] step = "APPL_ID" -> [st EXCEPT !.step = "APPL", !.account.app_idx = @ + 1]
          [] OTHER -> [st EXCEPT !.step = "ROOT"]
  BY <1>0 DEF finish_map
<1>2. CASE step = "APP_KV_VAR"
  <2>1. finish_map(st) = WithVariable(st)
    BY <1>1, <1>2
  <2>2. WithVariable(st) = Parts("APP_KV", open, err, OneMore(a))
    <3> DEFINE to == [st EXCEPT !.step = "APP_KV"]
    <3>1. to = Parts("APP_KV", open, err, a) /\ st.account = a
      BY <1>0 DEF Parts
    <3>2. WithVariable(st) = [to EXCEPT !.account.apps[st.account.app_idx].kv_count = @ + 1]
      BY DEF WithVariable
    <3> HIDE DEF to
    <3>3. [to EXCEPT !.account.apps[a.app_idx].kv_count = @ + 1] = Parts("APP_KV", open, err, OneMore(a))
      BY <3>1 DEF Parts, OneMore
    <3> QED BY <3>1, <3>2, <3>3
  <2> QED BY <1>2, <2>1, <2>2 DEF st, FinishStep, FinishAccount
<1>3. CASE step \in {"APP_KV", "APP_SCH"}
  <2>1. finish_map(st) = [st EXCEPT !.step = "APPL_ID"]
    BY <1>1, <1>3
  <2>2. [st EXCEPT !.step = "APPL_ID"] = Parts("APPL_ID", open, err, a)
    BY <1>0 DEF Parts
  <2> QED BY <1>3, <2>1, <2>2 DEF st, FinishStep, FinishAccount
<1>4. CASE step = "APPL_ID"
  <2>1. finish_map(st) = [st EXCEPT !.step = "APPL", !.account.app_idx = @ + 1]
    BY <1>1, <1>4
  <2>2. [st EXCEPT !.step = "APPL", !.account.app_idx = @ + 1] = Parts("APPL", open, err, NextApp(a))
    <3> DEFINE to == [st EXCEPT !.step = "APPL"]
    <3>1. to = Parts("APPL", open, err, a)
      BY <1>0 DEF Parts
    <3>2. [st EXCEPT !.step = "APPL", !.account.app_idx = @ + 1] = [to EXCEPT !.account.app_idx = @ + 1]
      OBVIOUS
    <3> HIDE DEF to
    <3>3. [to EXCEPT !.account.app_idx = @ + 1] = Parts("APPL", open, err, NextApp(a))
      BY <3>1 DEF Parts, NextApp
    <3> QED BY <3>2, <3>3
  <2> QED BY <1>4, <2>1, <2>2 DEF st, FinishStep, FinishAccount
<1>5. CASE step \notin {"APP_KV_VAR", "APP_KV", "APP_SCH", "APPL_ID"}
  <2>1. finish_map(st) = [st EXCEPT !.step = "ROOT"]
    BY <1>1, <1>5
  <2>2. [st EXCEPT !.step = "ROOT"] = Parts("ROOT", open, err, a)
    BY <1>0 DEF Parts
  <2> QED BY <1>5, <2>1, <2>2 DEF st, FinishStep, FinishAccount
<1> QED
  BY <1>2, <1>3, <1>4, <1>5

-----------------------------------------------------------------------------
(* The end of an element and of maps, for the innermost map's count.       *)
LEMMA AppendParts ==
  ASSUME NEW r \in Seq(Int), NEW n \in Int
  PROVE  /\ Append(r, n) \in Seq(Int) /\ Append(r, n) # <<>> /\ Last(Append(r, n)) = n
         /\ Front(Append(r, n)) = r /\ Len(Append(r, n)) = Len(r) + 1
<1> DEFINE o == Append(r, n)
<1>1. /\ o \in Seq(Int) /\ Len(o) = Len(r) + 1 /\ Len(r) \in Nat /\ o[Len(r) + 1] = n
      /\ DOMAIN o = 1..(Len(r) + 1) /\ \A i \in 1..Len(r) : o[i] = r[i]
  OBVIOUS
<1> HIDE DEF o
<1>2. o # <<>>
  BY <1>1
<1>3. Last(o) = n
  BY <1>1 DEF Last
<1>4. Front(o) = r
  BY <1>1 DEF Front
<1> QED
  BY <1>1, <1>2, <1>3, <1>4 DEF o

(* Changing the last of the open maps.                                     *)
LEMMA AppendExcept ==
  ASSUME NEW r \in Seq(Int), NEW n \in Int, NEW x \in Int
  PROVE  [Append(r, n) EXCEPT ![Len(Append(r, n))] = x] = Append(r, x)
<1> DEFINE o == Append(r, n)
           q == Append(r, x)
<1>1. /\ o \in Seq(Int) /\ Len(o) = Len(r) + 1 /\ Len(r) \in Nat
      /\ DOMAIN o = 1..(Len(r) + 1) /\ \A i \in 1..Len(r) : o[i] = r[i]
  OBVIOUS
<1>2. /\ q \in Seq(Int) /\ q[Len(r) + 1] = x
      /\ DOMAIN q = 1..(Len(r) + 1) /\ \A i \in 1..Len(r) : q[i] = r[i]
  OBVIOUS
<1> DEFINE u == [o EXCEPT ![Len(o)] = x]
<1> HIDE DEF o, q
<1>3. /\ DOMAIN u = 1..(Len(r) + 1) /\ u[Len(r) + 1] = x
      /\ \A i \in 1..Len(r) : u[i] = r[i]
  BY <1>1
<1>4. u \in Seq(Int)
  BY <1>1
<1> HIDE DEF u
<1>5. DOMAIN q = 1..Len(u) /\ Len(u) = Len(r) + 1
  BY <1>1, <1>2, <1>3, <1>4
<1>6. \A i \in 1..Len(u) : q[i] = u[i]
  <2>1. \A i \in 1..Len(u) : i \in 1..Len(r) \/ i = Len(r) + 1
    BY <1>1, <1>5
  <2> QED BY <1>2, <1>3, <2>1
<1>7. q = u
  BY <1>2, <1>4, <1>5, <1>6
<1> QED
  BY <1>7 DEF o, q, u

(* The open maps, when there are any, are the outer ones and the           *)
(* innermost.                                                              *)
LEMMA OpenParts ==
  ASSUME NEW o \in Seq(Int), o # <<>>
  PROVE  \E r \in Seq(Int), n \in Int : o = Append(r, n)
<1>1. Front(o) \in Seq(Int) /\ o[Len(o)] \in Int /\ o = Append(Front(o), o[Len(o)])
  BY DEF Front
<1> QED
  BY <1>1

(* The end of an element takes one from the innermost map, or all of it    *)
(* after an error.                                                         *)
LEMMA EndParts ==
  ASSUME NEW step, NEW r \in Seq(Int), NEW n \in Int, NEW err \in BOOLEAN, NEW a
  PROVE  EndOfElement(Parts(step, Append(r, n), err, a)) =
           At(step, Append(r, IF err THEN 0 ELSE n - 1), a)
<1> DEFINE o == Append(r, n)
           st == Parts(step, o, err, a)
           left == IF err THEN 0 ELSE n - 1
<1>0. /\ st = [step |-> step, open |-> o, err |-> err, account |-> a]
      /\ st.step = step /\ st.open = o /\ st.err = err /\ st.account = a
  BY DEF Parts
<1>1. /\ o # <<>> /\ o[Len(o)] = n
  BY AppendParts DEF Last
<1>1a. left \in Int
  OBVIOUS
<1>1b. [o EXCEPT ![Len(o)] = left] = Append(r, left)
  <2> HIDE DEF left
  <2> QED BY <1>1a, AppendExcept
<1> HIDE DEF st, o
<1>2. EndOfElement(st) = [st EXCEPT !.open[Len(o)] = IF err THEN 0 ELSE @ - 1, !.err = FALSE]
  BY <1>0, <1>1 DEF EndOfElement, InMap
<1>3. EndOfElement(st) = [st EXCEPT !.open = [o EXCEPT ![Len(o)] = left], !.err = FALSE]
  BY <1>0, <1>1, <1>2
<1> HIDE DEF left
<1>4. ASSUME NEW q PROVE [st EXCEPT !.open = q] = Parts(step, q, err, a)
  BY <1>0 DEF Parts
<1>5. ASSUME NEW e, NEW q PROVE [Parts(step, q, err, a) EXCEPT !.err = e] = Parts(step, q, e, a)
  BY DEF Parts
<1>6. EndOfElement(st) = At(step, Append(r, left), a)
  <2>1. EndOfElement(st) = [[st EXCEPT !.open = Append(r, left)] EXCEPT !.err = FALSE]
    BY <1>1b, <1>3
  <2>2. EndOfElement(st) = [Parts(step, Append(r, left), err, a) EXCEPT !.err = FALSE]
    BY <1>4, <2>1
  <2> QED BY <1>5, <2>2 DEF At
<1> QED
  BY <1>6 DEF st, o, left

(* Outside the maps, the end of an element does nothing.                   *)
LEMMA EndOut ==
  ASSUME NEW step, NEW a
  PROVE  EndOfElement(At(step, <<>>, a)) = At(step, <<>>, a)
BY DEF EndOfElement, InMap, At, Parts

(* The end of an element without error takes one from the innermost map.   *)
LEMMA EndAt ==
  ASSUME NEW step, NEW r \in Seq(Int), NEW n \in Int, NEW a
  PROVE  EndOfElement(At(step, Append(r, n), a)) = At(step, Append(r, n - 1), a)
<1> DEFINE e == FALSE
<1>1. e \in BOOLEAN /\ ~e
  OBVIOUS
<1>2. (IF e THEN 0 ELSE n - 1) = n - 1
  OBVIOUS
<1> HIDE DEF e
<1>3. EndOfElement(Parts(step, Append(r, n), e, a)) = At(step, Append(r, n - 1), a)
  BY <1>1, <1>2, EndParts
<1> QED
  BY <1>3 DEF At, e

(* The fields of a parser.                                                 *)
LEMMA AtOf ==
  ASSUME NEW step, NEW o, NEW a
  PROVE  /\ At(step, o, a).step = step /\ At(step, o, a).open = o /\ At(step, o, a).account = a
BY DEF At, Parts

(* Leaving a map is its end, and the end of an element of the outer one.   *)
LEMMA LeaveParts ==
  ASSUME NEW step, NEW r \in Seq(Int), NEW n \in Int, NEW a
  PROVE  LeaveMap(At(step, Append(r, n), a)) = EndOfElement(At(FinishStep(step), r, FinishAccount(step, a)))
<1> DEFINE o == Append(r, n)
           f == FinishStep(step)
           b == FinishAccount(step, a)
           e == FALSE
<1> HIDE DEF e
<1>1. finish_map(Parts(step, o, e, a)) = Parts(f, o, e, b)
  BY FinishParts
<1>2. Front(o) = r
  BY AppendParts
<1> HIDE DEF o, f, b
<1>3. [Parts(f, o, e, b) EXCEPT !.open = Front(@)] = Parts(f, r, e, b)
  BY <1>2 DEF Parts
<1> QED
  BY <1>1, <1>3 DEF LeaveMap, At, o, f, b, e

(* No map is left while the innermost has elements to come.                *)
LEMMA NothingToLeave ==
  ASSUME NEW st, NEW o \in Seq(Int), st.open = o, o = <<>> \/ Last(o) # 0
  PROVE  LeaveMaps(st) = st
<1>1. \A x \in {st}, e \in Int : LeaveOne(x, e) \in {st}
  BY DEF LeaveOne, InMap
<1>2. Leave!Fold(st, o) \in {st}
  BY <1>1, Leave!FoldInvariant
<1> QED
  BY <1>2, ParserFolds

(* The innermost map is not left while it has elements to come.            *)
LEMMA StayIn ==
  ASSUME NEW step, NEW r \in Seq(Int), NEW n \in Int, NEW a, n # 0
  PROVE  LeaveMaps(At(step, Append(r, n), a)) = At(step, Append(r, n), a)
<1> DEFINE o == Append(r, n)
           st == At(step, o, a)
<1>1. o \in Seq(Int) /\ Last(o) # 0 /\ st.open = o
  <2>1. o \in Seq(Int) /\ Last(o) # 0
    BY AppendParts
  <2> HIDE DEF o
  <2> QED BY <2>1, AtOf
<1> HIDE DEF st, o
<1>2. LeaveMaps(st) = st
  BY <1>1, NothingToLeave
<1> QED
  BY <1>2 DEF st, o

(* Outside the maps there is nothing to leave.                             *)
LEMMA StayOut ==
  ASSUME NEW step, NEW a
  PROVE  LeaveMaps(At(step, <<>>, a)) = At(step, <<>>, a)
<1> DEFINE o == <<>>
           st == At(step, o, a)
<1>1. o \in Seq(Int) /\ o = <<>> /\ st.open = o
  BY AtOf
<1> HIDE DEF st, o
<1>2. LeaveMaps(st) = st
  BY <1>1, NothingToLeave
<1> QED
  BY <1>2 DEF st, o

(* A map that is read is left, and then those that end with it.            *)
LEMMA LeaveOuter ==
  ASSUME NEW step, NEW r \in Seq(Int), NEW a
  PROVE  LeaveMaps(At(step, Append(r, 0), a)) =
           LeaveMaps(EndOfElement(At(FinishStep(step), r, FinishAccount(step, a))))
<1> DEFINE o == Append(r, 0)
           f == FinishStep(step)
           b == FinishAccount(step, a)
           st == At(step, o, a)
           next == EndOfElement(At(f, r, b))
           t == <<0>> \o r
<1>1. o \in Seq(Int) /\ Len(o) = Len(r) + 1 /\ o # <<>> /\ Last(o) = 0 /\ st.open = o
  <2>1. o \in Seq(Int) /\ Len(o) = Len(r) + 1 /\ o # <<>> /\ Last(o) = 0
    BY AppendParts
  <2> HIDE DEF o
  <2> QED BY <2>1, AtOf
<1>2. LeaveMap(st) = next
  BY LeaveParts
<1>3. next.open \in Seq(Int) /\ Len(next.open) = Len(r)
  <2> HIDE DEF f, b
  <2>1. CASE r = <<>>
    <3>1. next = At(f, r, b)
      <4>1. EndOfElement(At(f, <<>>, b)) = At(f, <<>>, b)
        BY EndOut
      <4> QED BY <2>1, <4>1
    <3>2. At(f, r, b).open = r
      BY AtOf
    <3> QED BY <3>1, <3>2
  <2>2. CASE r # <<>>
    <3>1. PICK q \in Seq(Int), m \in Int : r = Append(q, m)
      BY <2>2, OpenParts
    <3>2. next = At(f, Append(q, m - 1), b)
      BY <3>1, EndAt
    <3>3. next.open = Append(q, m - 1)
      <4> DEFINE o2 == Append(q, m - 1)
      <4>1. next = At(f, o2, b)
        BY <3>2
      <4> HIDE DEF next, o2
      <4>2. next.open = o2
        BY <4>1, AtOf
      <4> QED BY <4>2 DEF o2
    <3>4. m - 1 \in Int
      OBVIOUS
    <3> HIDE DEF next
    <3> QED BY <3>1, <3>3, <3>4, AppendParts
  <2> QED BY <2>1, <2>2
<1>4. t \in Seq(Int) /\ Len(t) = Len(r) + 1 /\ <<0>> \in Seq(Int)
  OBVIOUS
<1>5. \A x, d, e : LeaveOne(x, d) = LeaveOne(x, e)
  BY DEF LeaveOne
<1>6. Leave!Fold(st, t) = Leave!Fold(Leave!Fold(st, <<0>>), r)
  <2> DEFINE z == <<0>>
  <2>1. z \in Seq(Int)
    OBVIOUS
  <2> HIDE DEF st, z
  <2>2. Leave!Fold(st, z \o r) = Leave!Fold(Leave!Fold(st, z), r)
    BY <2>1, Leave!FoldConcat
  <2> QED BY <2>2 DEF z
<1> HIDE DEF o, st, next, t, f, b
<1>7. Leave!Fold(st, o) = Leave!Fold(st, t)
  BY <1>1, <1>4, <1>5, Leave!FoldIgnores
<1>8. Leave!Fold(st, <<0>>) = next
  <2>1. Leave!Fold(st, <<0>>) = LeaveOne(st, 0)
    BY Leave!FoldOne
  <2>2. LeaveOne(st, 0) = next
    BY <1>1, <1>2 DEF LeaveOne, InMap
  <2> QED BY <2>1, <2>2
<1>9. Leave!Fold(next, r) = Leave!Fold(next, next.open)
  BY <1>3, <1>5, Leave!FoldIgnores
<1>10. LeaveMaps(st) = LeaveMaps(next)
  BY <1>1, <1>6, <1>7, <1>8, <1>9, ParserFolds
<1> QED BY <1>10 DEF st, next, o, f, b

-----------------------------------------------------------------------------
(* What a token does, and the end of a map in a map.                       *)
StringFails(step, a, s) == StringErr(step, FALSE, a, s)

(* After the outermost map, tokens are ignored.                            *)
LEMMA ParseNothing ==
  ASSUME NEW step, NEW a, NEW token
  PROVE  parse_element(At(step, <<>>, a), token) = At(step, <<>>, a)
BY DEF parse_element, InMap, At, Parts

(* One step of the parser on a string.                                     *)
LEMMA ParseStr ==
  ASSUME NEW step, NEW r \in Seq(Int), NEW n \in Int, NEW a, NEW s, StringFails(step, a, s) \in BOOLEAN
  PROVE  parse_element(At(step, Append(r, n), a), Str(s)) =
           LeaveMaps(At(StringStep(step, s), Append(r, IF StringFails(step, a, s) THEN 0 ELSE n - 1), a))
<1> DEFINE o == Append(r, n)
           st == At(step, o, a)
           err == StringFails(step, a, s)
           next == StringStep(step, s)
           e == FALSE
<1>1. InMap(st)
  BY AppendParts DEF InMap, At, Parts
<1>2. parse_element(st, Str(s)) = LeaveMaps(EndOfElement(string_element(st, s)))
  <2> HIDE DEF st
  <2>1. Str(s).kind = "str" /\ Str(s).value = s
    BY DEF Str
  <2> QED BY <1>1, <2>1 DEF parse_element
<1>3. string_element(st, s) = Parts(next, o, err, a)
  <2> HIDE DEF e, o
  <2>1. string_element(Parts(step, o, e, a), s) = Parts(next, o, StringErr(step, e, a, s), a)
    BY StringParts
  <2> QED BY <2>1 DEF e, At, StringFails
<1>4. EndOfElement(Parts(next, o, err, a)) = At(next, Append(r, IF err THEN 0 ELSE n - 1), a)
  <2> HIDE DEF err, next
  <2>1. err \in BOOLEAN
    BY DEF err
  <2> QED BY <2>1, EndParts DEF o
<1> HIDE DEF st
<1> QED
  BY <1>2, <1>3, <1>4 DEF st

(* One step of the parser on a number.                                     *)
LEMMA ParseUInt ==
  ASSUME NEW step, NEW r \in Seq(Int), NEW n \in Int, NEW a, NEW v
  PROVE  parse_element(At(step, Append(r, n), a), UInt(v)) =
           LeaveMaps(At(UIntStep(step, a), Append(r, IF NoRoomFor(step, a) THEN 0 ELSE n - 1),
                        UIntAccount(step, a, v)))
<1> DEFINE o == Append(r, n)
           st == At(step, o, a)
           err == NoRoomFor(step, a)
           next == UIntStep(step, a)
           b == UIntAccount(step, a, v)
           e == FALSE
<1>1. InMap(st)
  BY AppendParts DEF InMap, At, Parts
<1>2. parse_element(st, UInt(v)) = LeaveMaps(EndOfElement(uint_element(st, v)))
  <2> HIDE DEF st
  <2>1. UInt(v).kind = "uint" /\ UInt(v).value = v
    BY DEF UInt
  <2> QED BY <1>1, <2>1 DEF parse_element
<1>3. uint_element(st, v) = Parts(next, o, UIntErr(step, e, a), b)
  <2> HIDE DEF e, o
  <2>1. uint_element(Parts(step, o, e, a), v) = Parts(next, o, UIntErr(step, e, a), b)
    BY UIntParts
  <2> QED BY <2>1 DEF e, At
<1>4. UIntErr(step, e, a) \in BOOLEAN /\ (UIntErr(step, e, a) <=> err)
  <2>1. CASE err
    BY <2>1 DEF UIntErr
  <2>2. CASE ~err
    BY <2>2 DEF UIntErr
  <2> QED BY <2>1, <2>2
<1>5. EndOfElement(Parts(next, o, UIntErr(step, e, a), b)) = At(next, Append(r, IF err THEN 0 ELSE n - 1), b)
  <2> DEFINE f == UIntErr(step, e, a)
  <2>1. f \in BOOLEAN /\ (f <=> err)
    BY <1>4
  <2> HIDE DEF err, next, b, f, e
  <2>2. EndOfElement(Parts(next, o, f, b)) = At(next, Append(r, IF f THEN 0 ELSE n - 1), b)
    BY <2>1, EndParts DEF o
  <2>3. (IF f THEN 0 ELSE n - 1) = (IF err THEN 0 ELSE n - 1)
    BY <2>1
  <2> QED BY <2>2, <2>3 DEF f
<1> HIDE DEF st
<1> QED
  BY <1>2, <1>3, <1>5 DEF st

(* One step of the parser on the start of a map.                           *)
LEMMA ParseMap ==
  ASSUME NEW step, NEW r \in Seq(Int), NEW n \in Int, NEW a, NEW m
  PROVE  parse_element(At(step, Append(r, n), a), MapOf(m)) =
           LeaveMaps(At(step, Append(Append(r, n), 2 * m), a))
<1> DEFINE o == Append(r, n)
           st == At(step, o, a)
           q == Append(o, 2 * m)
           e == FALSE
<1>1. InMap(st) /\ st.open = o
  BY AppendParts DEF InMap, At, Parts
<1>2. parse_element(st, MapOf(m)) = LeaveMaps([st EXCEPT !.open = q])
  <2> HIDE DEF st
  <2>1. MapOf(m).kind = "map" /\ MapOf(m).value = m
    BY DEF MapOf
  <2> QED BY <1>1, <2>1 DEF parse_element
<1>3. [st EXCEPT !.open = q] = At(step, q, a)
  <2> HIDE DEF e, o, q
  <2>1. [Parts(step, o, e, a) EXCEPT !.open = q] = Parts(step, q, e, a)
    BY DEF Parts
  <2> QED BY <2>1 DEF e, At
<1> HIDE DEF st
<1> QED
  BY <1>2, <1>3 DEF st

(* A map that ends inside another one, and the outermost.                  *)
LEMMA LeaveInner ==
  ASSUME NEW step, NEW q \in Seq(Int), NEW m \in Int, NEW a
  PROVE  /\ LeaveMaps(At(step, Append(Append(q, m), 0), a)) =
              LeaveMaps(At(FinishStep(step), Append(q, m - 1), FinishAccount(step, a)))
         /\ LeaveMaps(At(step, Append(<<>>, 0), a)) = At(FinishStep(step), <<>>, FinishAccount(step, a))
<1> DEFINE r == Append(q, m)
           f == FinishStep(step)
           b == FinishAccount(step, a)
           z == <<>>
<1>1. r \in Seq(Int) /\ z \in Seq(Int)
  OBVIOUS
<1>2. EndOfElement(At(f, Append(q, m), b)) = At(f, Append(q, m - 1), b)
  BY EndAt
<1>3. EndOfElement(At(f, z, b)) = At(f, z, b)
  BY EndOut
<1>4. LeaveMaps(At(f, z, b)) = At(f, z, b)
  BY StayOut
<1> HIDE DEF r, z
<1>5. LeaveMaps(At(step, Append(r, 0), a)) = LeaveMaps(EndOfElement(At(f, r, b)))
  BY <1>1, LeaveOuter
<1>6. LeaveMaps(At(step, Append(z, 0), a)) = LeaveMaps(EndOfElement(At(f, z, b)))
  BY <1>1, LeaveOuter
<1> QED
  BY <1>2, <1>3, <1>4, <1>5, <1>6 DEF r, z

-----------------------------------------------------------------------------
(* Steps with accounts that no token leaves, with names from a set.        *)
Closed(K, names) ==
  \A ka \in K :
    /\ ka = <<ka[1], ka[2]>>
    /\ \A s \in names : /\ StringFails(ka[1], ka[2], s) \in BOOLEAN
                        /\ <<StringStep(ka[1], s), ka[2]>> \in K
    /\ \A v \in Nat : <<UIntStep(ka[1], ka[2]), UIntAccount(ka[1], ka[2], v)>> \in K
    /\ <<FinishStep(ka[1]), FinishAccount(ka[1], ka[2])>> \in K

StatesOf(K) == {At(ka[1], o, ka[2]) : ka \in K, o \in Seq(Int)}

TokensWith(names) == {Str(s) : s \in names} \cup {UInt(v) : v \in Nat} \cup {MapOf(m) : m \in Nat}

(* A parser whose step and account are in a set is one of the states of    *)
(* the set.                                                                *)
LEMMA InStatesOf ==
  ASSUME NEW K, NEW p, NEW a, <<p, a>> \in K, NEW o \in Seq(Int)
  PROVE  At(p, o, a) \in StatesOf(K)
<1> DEFINE ka == <<p, a>>
<1>1. ka \in K /\ ka[1] = p /\ ka[2] = a
  OBVIOUS
<1> HIDE DEF ka
<1>2. At(ka[1], o, ka[2]) \in StatesOf(K)
  BY <1>1 DEF StatesOf
<1> QED
  BY <1>1, <1>2

(* Leaving maps stays in a closed set.                                     *)
LEMMA LeaveKeeps ==
  ASSUME NEW K, NEW names, Closed(K, names), NEW st \in StatesOf(K)
  PROVE  LeaveMaps(st) \in StatesOf(K)
<1>1. ASSUME NEW x \in StatesOf(K), NEW e \in Int PROVE LeaveOne(x, e) \in StatesOf(K)
  <2>1. PICK ka \in K, o \in Seq(Int) : x = At(ka[1], o, ka[2])
    BY DEF StatesOf
  <2> DEFINE f == FinishStep(ka[1])
             b == FinishAccount(ka[1], ka[2])
  <2>2. x.open = o
    BY <2>1, AtOf
  <2>3. <<f, b>> \in K
    BY DEF Closed
  <2> HIDE DEF f, b
  <2>4. CASE o = <<>>
    BY <2>2, <2>4 DEF LeaveOne, InMap
  <2>5. CASE o # <<>>
    <3>1. PICK r \in Seq(Int), n \in Int : o = Append(r, n)
      BY <2>5, OpenParts
    <3>2. LeaveMap(x) = EndOfElement(At(f, r, b))
      BY <2>1, <3>1, LeaveParts DEF f, b
    <3>3. EndOfElement(At(f, r, b)) \in StatesOf(K)
      <4>1. CASE r = <<>>
        <5>1. EndOfElement(At(f, r, b)) = At(f, r, b)
          <6>1. EndOfElement(At(f, <<>>, b)) = At(f, <<>>, b)
            BY EndOut
          <6> QED BY <4>1, <6>1
        <5> QED BY <2>3, <5>1, InStatesOf
      <4>2. CASE r # <<>>
        <5>1. PICK q \in Seq(Int), m \in Int : r = Append(q, m)
          BY <4>2, OpenParts
        <5> DEFINE o2 == Append(q, m - 1)
        <5>2. EndOfElement(At(f, r, b)) = At(f, o2, b)
          BY <5>1, EndAt
        <5>3. o2 \in Seq(Int)
          OBVIOUS
        <5> HIDE DEF o2
        <5> QED BY <2>3, <5>2, <5>3, InStatesOf
      <4> QED BY <4>1, <4>2
    <3> QED BY <3>2, <3>3 DEF LeaveOne
  <2> QED BY <2>4, <2>5
<1>2. PICK o \in Seq(Int) : st.open = o
  <2>1. PICK ka \in K, o \in Seq(Int) : st = At(ka[1], o, ka[2])
    BY DEF StatesOf
  <2> QED BY <2>1, AtOf
<1>3. Leave!Fold(st, o) \in StatesOf(K)
  BY <1>1, Leave!FoldInvariant
<1> QED
  BY <1>2, <1>3, ParserFolds

(* An element of an answer stays in a closed set.                          *)
LEMMA ElementKeeps ==
  ASSUME NEW K, NEW names, Closed(K, names), NEW st \in StatesOf(K), NEW token \in TokensWith(names)
  PROVE  parse_element(st, token) \in StatesOf(K)
<1>1. PICK ka \in K, o \in Seq(Int) : st = At(ka[1], o, ka[2])
  BY DEF StatesOf
<1> DEFINE p == ka[1]
           a == ka[2]
<1>2. /\ \A s \in names : StringFails(p, a, s) \in BOOLEAN /\ <<StringStep(p, s), a>> \in K
      /\ \A v \in Nat : <<UIntStep(p, a), UIntAccount(p, a, v)>> \in K
  BY DEF Closed
<1>3. st = At(p, o, a)
  BY <1>1
<1> HIDE DEF p, a
<1>4. CASE o = <<>>
  <2>1. parse_element(At(p, <<>>, a), token) = At(p, <<>>, a)
    BY ParseNothing
  <2> QED BY <1>3, <1>4, <2>1
<1>5. CASE o # <<>>
  <2>1. PICK r \in Seq(Int), n \in Int : o = Append(r, n)
    BY <1>5, OpenParts
  <2>2. ASSUME NEW s \in names, token = Str(s) PROVE parse_element(st, token) \in StatesOf(K)
    <3> DEFINE left == IF StringFails(p, a, s) THEN 0 ELSE n - 1
               o2 == Append(r, left)
               next == StringStep(p, s)
    <3>1. left \in Int
      OBVIOUS
    <3>2. parse_element(st, token) = LeaveMaps(At(next, o2, a))
      <4>1. StringFails(p, a, s) \in BOOLEAN
        BY <1>2
      <4>2. parse_element(At(p, Append(r, n), a), Str(s)) =
              LeaveMaps(At(StringStep(p, s), Append(r, IF StringFails(p, a, s) THEN 0 ELSE n - 1), a))
        BY <4>1, ParseStr
      <4>3. st = At(p, Append(r, n), a) /\ token = Str(s)
        BY <1>3, <2>1, <2>2
      <4> QED BY <4>2, <4>3
    <3>3. o2 \in Seq(Int)
      <4> HIDE DEF left
      <4> QED BY <3>1
    <3>4. <<next, a>> \in K
      BY <1>2
    <3> HIDE DEF left, o2, next
    <3>5. At(next, o2, a) \in StatesOf(K)
      BY <3>3, <3>4, InStatesOf
    <3> QED BY <3>2, <3>5, LeaveKeeps
  <2>3. ASSUME NEW v \in Nat, token = UInt(v) PROVE parse_element(st, token) \in StatesOf(K)
    <3> DEFINE left == IF NoRoomFor(p, a) THEN 0 ELSE n - 1
               o2 == Append(r, left)
               next == UIntStep(p, a)
               b == UIntAccount(p, a, v)
    <3>1. left \in Int
      OBVIOUS
    <3>2. parse_element(st, token) = LeaveMaps(At(next, o2, b))
      BY <1>2, <1>3, <2>1, <2>3, ParseUInt
    <3>3. o2 \in Seq(Int)
      <4> HIDE DEF left
      <4> QED BY <3>1
    <3>4. <<next, b>> \in K
      BY <1>2
    <3> HIDE DEF left, o2, next, b
    <3>5. At(next, o2, b) \in StatesOf(K)
      BY <3>3, <3>4, InStatesOf
    <3> QED BY <3>2, <3>5, LeaveKeeps
  <2>4. ASSUME NEW m \in Nat, token = MapOf(m) PROVE parse_element(st, token) \in StatesOf(K)
    <3> DEFINE o2 == Append(o, 2 * m)
    <3>2. parse_element(st, token) = LeaveMaps(At(p, o2, a))
      BY <1>3, <2>1, <2>4, ParseMap, SMTT(30)
    <3>3. o2 \in Seq(Int)
      OBVIOUS
    <3>4. <<p, a>> \in K
      <4>1. ka = <<p, a>>
        BY DEF p, a, Closed
      <4> QED BY <4>1
    <3> HIDE DEF o2
    <3>5. At(p, o2, a) \in StatesOf(K)
      BY <3>3, <3>4, InStatesOf
    <3> QED BY <3>2, <3>5, LeaveKeeps
  <2> QED BY <2>2, <2>3, <2>4 DEF TokensWith
<1> QED
  BY <1>4, <1>5

(* Reading any tokens stays in a closed set: the induction over the        *)
(* answer.                                                                 *)
LEMMA ReadKeeps ==
  ASSUME NEW K, NEW names, Closed(K, names), NEW st \in StatesOf(K), NEW tokens \in Seq(TokensWith(names))
  PROVE  Parse!Fold(st, tokens) \in StatesOf(K)
<1> DEFINE T == TokensWith(names)
<1>1. \A x \in StatesOf(K), e \in T : parse_element(x, e) \in StatesOf(K)
  BY ElementKeeps
<1>2. tokens \in Seq(T)
  OBVIOUS
<1> HIDE DEF T
<1> QED
  BY <1>1, <1>2, Parse!FoldInvariant

(* The account after the end of the answer is one of them.                 *)
LEMMA EndKeeps ==
  ASSUME NEW K, NEW names, Closed(K, names), NEW st \in StatesOf(K)
  PROVE  \E ka \in K : EndOfAnswer(st).account = ka[2]
<1>1. ASSUME NEW x \in StatesOf(K), NEW e \in Int PROVE FinishOne(x, e) \in StatesOf(K)
  <2>1. PICK ka \in K, o \in Seq(Int) : x = At(ka[1], o, ka[2])
    BY DEF StatesOf
  <2> DEFINE f == FinishStep(ka[1])
             b == FinishAccount(ka[1], ka[2])
             e2 == FALSE
  <2> HIDE DEF e2
  <2>2. finish_map(Parts(ka[1], o, e2, ka[2])) = Parts(f, o, e2, b)
    BY FinishParts
  <2>3. FinishOne(x, e) = At(f, o, b)
    BY <2>1, <2>2 DEF FinishOne, At, e2
  <2>4. <<f, b>> \in K
    BY DEF Closed
  <2> HIDE DEF f, b
  <2> QED BY <2>3, <2>4, InStatesOf
<1>2. PICK o \in Seq(Int) : st.open = o
  <2>1. PICK ka \in K, o \in Seq(Int) : st = At(ka[1], o, ka[2])
    BY DEF StatesOf
  <2> QED BY <2>1, AtOf
<1>3. Finish!Fold(st, o) \in StatesOf(K)
  BY <1>1, Finish!FoldInvariant
<1>4. EndOfAnswer(st) \in StatesOf(K)
  BY <1>2, <1>3, ParserFolds
<1>5. PICK ka \in K, q \in Seq(Int) : EndOfAnswer(st) = At(ka[1], q, ka[2])
  BY <1>4 DEF StatesOf
<1> QED
  BY <1>5, AtOf

-----------------------------------------------------------------------------
(* The account as the callbacks change it.                                 *)
LEMMA AccountChanges ==
  ASSUME NEW a \in Details
  PROVE  /\ \A v \in Amounts : WithAmount(a, v) \in Details /\ Grows(a, WithAmount(a, v))
                               /\ WithAmount(a, v).apps = a.apps /\ WithAmount(a, v).app_idx = a.app_idx
                               /\ WithAmount(a, v).amount = v
         /\ a.app_idx < AppsMaxCount =>
              /\ \A n \in Nat : WithId(a, n) \in Details /\ Grows(a, WithId(a, n))
              /\ OneMore(a) \in Details /\ Grows(a, OneMore(a))
              /\ NextApp(a) \in Details /\ Grows(a, NextApp(a))
<1> DEFINE k == a.app_idx
<1>1. /\ a.amount \in Amounts /\ k \in 0..AppsMaxCount
      /\ a.apps \in [AppIdxs -> [app_id : Nat, kv_count : Nat]]
      /\ AppsMaxCount \in Nat
      /\ a = [amount |-> a.amount, app_idx |-> k, apps |-> a.apps]
  BY AccountParserAssumption DEF Details
<1>2. ASSUME NEW v \in Amounts
      PROVE  WithAmount(a, v) \in Details /\ Grows(a, WithAmount(a, v))
             /\ WithAmount(a, v).apps = a.apps /\ WithAmount(a, v).app_idx = a.app_idx
             /\ WithAmount(a, v).amount = v
  <2>1. WithAmount(a, v) = [amount |-> v, app_idx |-> k, apps |-> a.apps]
    BY <1>1 DEF WithAmount
  <2> QED BY <1>1, <2>1 DEF Details, Grows
<1>3. ASSUME k < AppsMaxCount, NEW n \in Nat
      PROVE  WithId(a, n) \in Details /\ Grows(a, WithId(a, n))
  <2> DEFINE apps == [a.apps EXCEPT ![k] = [app_id |-> n, kv_count |-> a.apps[k].kv_count]]
  <2>0. k \in AppIdxs
    BY <1>1, <1>3 DEF AppIdxs
  <2>1. WithId(a, n) = [a EXCEPT !.apps = apps]
    BY <1>1 DEF WithId
  <2>2. apps \in [AppIdxs -> [app_id : Nat, kv_count : Nat]]
    BY <1>1, <2>0
  <2>3. \A j \in AppIdxs : apps[j].kv_count = a.apps[j].kv_count /\ a.apps[j].kv_count \in Nat
    BY <1>1, <2>0
  <2> HIDE DEF apps
  <2>4. WithId(a, n) = [amount |-> a.amount, app_idx |-> k, apps |-> apps]
    BY <1>1, <2>1
  <2>5. WithId(a, n) \in Details
    BY <1>1, <2>2, <2>4 DEF Details
  <2>6. Grows(a, WithId(a, n))
    BY <1>1, <1>3, <2>3, <2>4 DEF Grows
  <2> QED BY <2>5, <2>6
<1>4. ASSUME k < AppsMaxCount PROVE OneMore(a) \in Details /\ Grows(a, OneMore(a))
  <2> DEFINE apps == [a.apps EXCEPT ![k].kv_count = @ + 1]
  <2>0. k \in AppIdxs
    BY <1>1, <1>4 DEF AppIdxs
  <2>1. OneMore(a) = [a EXCEPT !.apps = apps]
    BY <1>1 DEF OneMore
  <2>2. apps = [j \in AppIdxs |-> IF j = k THEN [app_id |-> a.apps[k].app_id, kv_count |-> a.apps[k].kv_count + 1]
                                 ELSE a.apps[j]]
    BY <1>1, <2>0
  <2>2a. apps \in [AppIdxs -> [app_id : Nat, kv_count : Nat]]
    <3> HIDE DEF apps
    <3> QED BY <1>1, <2>0, <2>2
  <2>3. \A j \in AppIdxs : a.apps[j].kv_count <= apps[j].kv_count
    <3> HIDE DEF apps
    <3> QED BY <1>1, <2>0, <2>2
  <2> HIDE DEF apps
  <2>4. OneMore(a) = [amount |-> a.amount, app_idx |-> k, apps |-> apps]
    BY <1>1, <2>1
  <2>5. OneMore(a) \in Details
    BY <1>1, <2>2a, <2>4 DEF Details
  <2>6. Grows(a, OneMore(a))
    BY <1>1, <1>4, <2>3, <2>4 DEF Grows
  <2> QED BY <2>5, <2>6
<1>5. ASSUME k < AppsMaxCount PROVE NextApp(a) \in Details /\ Grows(a, NextApp(a))
  <2>1. NextApp(a) = [amount |-> a.amount, app_idx |-> k + 1, apps |-> a.apps]
    BY <1>1 DEF NextApp
  <2> QED BY <1>1, <1>5, <2>1 DEF Details, Grows
<1> QED
  BY <1>2, <1>3, <1>4, <1>5

(* What the parser reaches from an account, whatever it reads.             *)
Reached(a) ==
  {ka \in (AppSteps \cup OtherSteps) \X Details :
     (ka[1] \in AppSteps => ka[2].app_idx < AppsMaxCount) /\ Grows(a, ka[2])}

(* What grew from some details is closed under every element there is.     *)
LEMMA ReachedClosed ==
  ASSUME NEW a \in Details, NEW names
  PROVE  Closed(Reached(a), names)
<1> SUFFICES ASSUME NEW ka \in Reached(a)
             PROVE  /\ ka = <<ka[1], ka[2]>>
                    /\ \A s \in names : /\ StringFails(ka[1], ka[2], s) \in BOOLEAN
                                         /\ <<StringStep(ka[1], s), ka[2]>> \in Reached(a)
                    /\ \A v \in Nat : <<UIntStep(ka[1], ka[2]), UIntAccount(ka[1], ka[2], v)>> \in Reached(a)
                    /\ <<FinishStep(ka[1]), FinishAccount(ka[1], ka[2])>> \in Reached(a)
  BY DEF Closed
<1> DEFINE p == ka[1]
           b == ka[2]
<1>1. /\ ka = <<p, b>> /\ p \in AppSteps \cup OtherSteps /\ b \in Details
      /\ (p \in AppSteps => b.app_idx < AppsMaxCount) /\ Grows(a, b)
  BY DEF Reached
<1>2. ASSUME NEW q \in AppSteps \cup OtherSteps, NEW c \in Details, Grows(b, c),
             q \in AppSteps => c.app_idx < AppsMaxCount
      PROVE  <<q, c>> \in Reached(a)
  <2> HIDE DEF b
  <2>1. Grows(a, c)
    BY <1>1, <1>2, GrowsTransitive
  <2> QED BY <1>2, <2>1 DEF Reached
<1> HIDE DEF p, b
<1>3. Grows(b, b) /\ b.app_idx \in 0..AppsMaxCount /\ AppsMaxCount \in Nat
  BY <1>1, GrowsReflexive, AccountParserAssumption DEF Details
<1>4. ASSUME NEW s \in names
      PROVE  StringFails(p, b, s) \in BOOLEAN /\ <<StringStep(p, s), b>> \in Reached(a)
  <2> DEFINE e == FALSE
  <2>1. e \in BOOLEAN
    OBVIOUS
  <2> HIDE DEF e
  <2>2. /\ StringStep(p, s) \in AppSteps \cup OtherSteps
        /\ StringErr(p, e, b, s) \in BOOLEAN
        /\ StringStep(p, s) \in AppSteps => b.app_idx < AppsMaxCount
    BY <1>1, <2>1, StringKept
  <2>3. StringFails(p, b, s) \in BOOLEAN
    BY <2>2 DEF StringFails, e
  <2> QED BY <1>1, <1>2, <1>3, <2>2, <2>3
<1>5. ASSUME NEW v \in Nat
      PROVE  <<UIntStep(p, b), UIntAccount(p, b, v)>> \in Reached(a)
  <2> DEFINE q == UIntStep(p, b)
             c == UIntAccount(p, b, v)
  <2>1. CASE NoRoomFor(p, b)
    BY <1>1, <1>2, <1>3, <2>1 DEF UIntStep, UIntAccount
  <2>2. CASE ~NoRoomFor(p, b) /\ p = "ALGO"
    <3>1. q = "ROOT" /\ c = WithAmount(b, AsInt32(v))
      BY <2>2 DEF UIntStep, UIntAccount, StepOfUInt
    <3>2. c \in Details /\ Grows(b, c)
      BY <1>1, <3>1, AmountFits, AccountChanges
    <3>3. "ROOT" \in AppSteps \cup OtherSteps /\ "ROOT" \notin AppSteps
      BY DEF AppSteps, OtherSteps
    <3> HIDE DEF q, c
    <3> QED BY <1>2, <3>1, <3>2, <3>3 DEF q, c
  <2>3. CASE ~NoRoomFor(p, b) /\ p = "APPL"
    <3>1. q = "APPL_ID" /\ c = WithId(b, v)
      BY <2>3 DEF UIntStep, UIntAccount, StepOfUInt
    <3>2. b.app_idx < AppsMaxCount
      BY <1>3, <2>3 DEF NoRoomFor
    <3>3. c \in Details /\ Grows(b, c) /\ c.app_idx = b.app_idx
      BY <1>1, <3>1, <3>2, AccountChanges DEF WithId
    <3>4. "APPL_ID" \in AppSteps \cup OtherSteps
      BY DEF AppSteps
    <3> HIDE DEF q, c
    <3> QED BY <1>2, <3>1, <3>2, <3>3, <3>4 DEF q, c
  <2>4. CASE ~NoRoomFor(p, b) /\ p # "ALGO" /\ p # "APPL"
    <3>1. c = b
      BY <2>4 DEF UIntAccount
    <3>2. q \in AppSteps \cup OtherSteps /\ (q \in AppSteps => p \in AppSteps)
      BY <1>1, <2>4 DEF UIntStep, StepOfUInt, AppSteps, OtherSteps
    <3> HIDE DEF q, c
    <3> QED BY <1>1, <1>2, <1>3, <3>1, <3>2 DEF q, c
  <2> QED BY <2>1, <2>2, <2>3, <2>4
<1>6. <<FinishStep(p), FinishAccount(p, b)>> \in Reached(a)
  <2> DEFINE q == FinishStep(p)
             c == FinishAccount(p, b)
  <2>1. CASE p = "APP_KV_VAR"
    <3>1. q = "APP_KV" /\ c = OneMore(b)
      BY <2>1 DEF FinishStep, FinishAccount
    <3>2. b.app_idx < AppsMaxCount /\ "APP_KV" \in AppSteps
      BY <1>1, <2>1 DEF AppSteps
    <3>3. c \in Details /\ Grows(b, c) /\ c.app_idx = b.app_idx
      BY <1>1, <3>1, <3>2, AccountChanges DEF OneMore
    <3> HIDE DEF q, c
    <3> QED BY <1>2, <3>1, <3>2, <3>3 DEF q, c
  <2>2. CASE p = "APPL_ID"
    <3>1. q = "APPL" /\ c = NextApp(b)
      BY <2>2 DEF FinishStep, FinishAccount
    <3>2. b.app_idx < AppsMaxCount /\ "APPL" \in OtherSteps /\ "APPL" \notin AppSteps
      BY <1>1, <2>2 DEF AppSteps, OtherSteps
    <3>3. c \in Details /\ Grows(b, c)
      BY <1>1, <3>1, <3>2, AccountChanges
    <3> HIDE DEF q, c
    <3> QED BY <1>2, <3>1, <3>2, <3>3 DEF q, c
  <2>3. CASE p # "APP_KV_VAR" /\ p # "APPL_ID"
    <3>1. c = b
      BY <2>3 DEF FinishAccount
    <3>2. q \in AppSteps \cup OtherSteps /\ (q \in AppSteps => p \in AppSteps)
      BY <1>1, <2>3 DEF FinishStep, AppSteps, OtherSteps
    <3> HIDE DEF q, c
    <3> QED BY <1>1, <1>2, <1>3, <3>1, <3>2 DEF q, c
  <2> QED BY <2>1, <2>2, <2>3
<1> QED
  BY <1>1, <1>4, <1>5, <1>6 DEF p, b

-----------------------------------------------------------------------------
(* The ids of applications can be sorted, and all are among them.          *)
LEMMA Bounded ==
  ASSUME NEW S \in SUBSET Nat, IsFiniteSet(S)
  PROVE  \E k \in Nat : S \subseteq 0..(k - 1)
<1> DEFINE N == {n \in Nat : \A T \in SUBSET Nat :
                    IsFiniteSet(T) /\ Cardinality(T) = n => \E k \in Nat : T \subseteq 0..(k - 1)}
<1>1. 0 \in N
  <2>1. \A T : IsFiniteSet(T) /\ Cardinality(T) = 0 => T = {}
    BY FS_EmptySet
  <2>2. {} \subseteq 0..(0 - 1)
    OBVIOUS
  <2> QED BY <2>1, <2>2
<1>2. ASSUME NEW n \in N PROVE n + 1 \in N
  <2> SUFFICES ASSUME NEW T \in SUBSET Nat, IsFiniteSet(T), Cardinality(T) = n + 1
               PROVE  \E k \in Nat : T \subseteq 0..(k - 1)
    OBVIOUS
  <2>1. T # {}
    BY FS_EmptySet
  <2>2. PICK x : x \in T
    BY <2>1
  <2> DEFINE U == T \ {x}
  <2>3. IsFiniteSet(U) /\ Cardinality(U) = n /\ U \in SUBSET Nat
    <3>1. IsFiniteSet(U) /\ Cardinality(U) = Cardinality(T) - 1
      BY <2>2, FS_RemoveElement
    <3>2. U \in SUBSET Nat
      OBVIOUS
    <3> HIDE DEF U
    <3> QED BY <3>1, <3>2
  <2>4. PICK k \in Nat : U \subseteq 0..(k - 1)
    <3> HIDE DEF U
    <3> QED BY <2>3
  <2>5. CASE x < k
    <3>1. T \subseteq 0..(k - 1)
      BY <2>2, <2>4, <2>5
    <3> QED BY <3>1
  <2>6. CASE ~(x < k)
    <3>1. x + 1 \in Nat /\ T \subseteq 0..((x + 1) - 1)
      BY <2>2, <2>4, <2>6
    <3> QED BY <3>1
  <2> QED BY <2>5, <2>6
<1>3. N = Nat
  <2> HIDE DEF N
  <2>1. N \in SUBSET Nat
    BY DEF N
  <2> QED BY <1>1, <1>2, <2>1, Parse!Induction
<1> QED
  BY <1>3, FS_CardinalityType

Sorts(ids, S) ==
  /\ ids \in [1..Cardinality(S) -> S]
  /\ \A i, j \in 1..Cardinality(S) : i < j => ids[i] < ids[j]

(* Every finite set of numbers can be sorted.                              *)
LEMMA CanBeSorted ==
  ASSUME NEW S \in SUBSET Nat, IsFiniteSet(S)
  PROVE  \E ids : Sorts(ids, S)
<1> DEFINE N == {n \in Nat : \A T \in SUBSET (0..(n - 1)) : \E ids : Sorts(ids, T)}
<1>1. 0 \in N
  <2>1. \A T \in SUBSET (0..(0 - 1)) : T = {}
    OBVIOUS
  <2>2. Sorts(<<>>, {})
    <3>1. Cardinality({}) = 0
      BY FS_EmptySet
    <3> QED BY <3>1 DEF Sorts
  <2> QED BY <2>1, <2>2
<1>2. ASSUME NEW n \in N PROVE n + 1 \in N
  <2> SUFFICES ASSUME NEW T \in SUBSET (0..((n + 1) - 1)) PROVE \E ids : Sorts(ids, T)
    OBVIOUS
  <2> DEFINE U == T \ {n}
             c == Cardinality(U)
  <2>1. U \in SUBSET (0..(n - 1))
    OBVIOUS
  <2>2. PICK ids : Sorts(ids, U)
    BY <2>1
  <2>3. CASE n \notin T
    <3>1. U = T
      BY <2>3
    <3> QED BY <2>2, <3>1
  <2>4. CASE n \in T
    <3>1. IsFiniteSet(U) /\ c \in Nat /\ Cardinality(T) = c + 1
      <4>1. IsFiniteSet(0..n)
        BY FS_Interval
      <4>2. IsFiniteSet(T)
        <5>1. T \in SUBSET (0..n)
          OBVIOUS
        <5> QED BY <4>1, <5>1, FS_Subset
      <4>3. IsFiniteSet(U) /\ Cardinality(U) = Cardinality(T) - 1
        BY <2>4, <4>2, FS_RemoveElement
      <4> QED BY <4>2, <4>3, FS_CardinalityType
    <3> DEFINE more == [i \in 1..(c + 1) |-> IF i = c + 1 THEN n ELSE ids[i]]
    <3> HIDE DEF c
    <3>2. \A i \in 1..c : ids[i] \in U
      BY <2>2 DEF Sorts, c
    <3>3. \A i, j \in 1..c : i < j => ids[i] < ids[j]
      BY <2>2 DEF Sorts, c
    <3>4. \A i \in 1..(c + 1) : i \in 1..c \/ i = c + 1
      BY <3>1
    <3>5. more \in [1..(c + 1) -> T]
      BY <2>4, <3>1, <3>2, <3>4
    <3>6. \A i, j \in 1..(c + 1) : i < j => more[i] < more[j]
      <4> SUFFICES ASSUME NEW i \in 1..(c + 1), NEW j \in 1..(c + 1), i < j PROVE more[i] < more[j]
        OBVIOUS
      <4>1. i \in 1..c /\ more[i] = ids[i] /\ ids[i] \in 0..(n - 1)
        <5>1. i \in 1..c /\ more[i] = ids[i]
          BY <3>1
        <5>2. ids[i] \in U
          BY <3>2, <5>1
        <5> HIDE DEF U
        <5> QED BY <2>1, <5>1, <5>2
      <4>2. CASE j = c + 1
        BY <4>1, <4>2
      <4>3. CASE j \in 1..c
        <5>1. more[j] = ids[j]
          BY <3>1, <4>3
        <5> HIDE DEF more
        <5> QED BY <3>3, <4>1, <4>3, <5>1
      <4> QED BY <3>4, <4>2, <4>3
    <3> HIDE DEF more
    <3> QED BY <3>1, <3>5, <3>6 DEF Sorts
  <2> QED BY <2>3, <2>4
<1>3. N = Nat
  <2> HIDE DEF N
  <2>1. N \in SUBSET Nat
    BY DEF N
  <2> QED BY <1>1, <1>2, <2>1, Parse!Induction
<1>4. PICK k \in Nat : S \subseteq 0..(k - 1)
  BY Bounded
<1>5. k \in N
  <2> HIDE DEF N
  <2> QED BY <1>3
<1> QED
  BY <1>4, <1>5

(* The ids of an answer, sorted, are its ids, one after the other.         *)
LEMMA IdsAreSorted ==
  ASSUME NEW d, IsAnswer(d)
  PROVE  LET ids == SortedIds(d.apps)
             n == Cardinality(DOMAIN d.apps)
         IN  /\ n \in Nat /\ ids \in [1..n -> DOMAIN d.apps]
             /\ \A i, j \in 1..n : i < j => ids[i] < ids[j]
<1> DEFINE S == DOMAIN d.apps
           n == Cardinality(S)
<1>1. S \in SUBSET Nat /\ IsFiniteSet(S)
  BY DEF IsAnswer
<1>2. n \in Nat
  BY <1>1, FS_CardinalityType
<1>3. \E ids \in [1..n -> S] : \A i, j \in 1..n : i < j => ids[i] < ids[j]
  <2>1. \E ids : Sorts(ids, S)
    BY <1>1, CanBeSorted
  <2> QED BY <2>1 DEF Sorts
<1> QED
  BY <1>2, <1>3 DEF SortedIds

(* Different positions have different ids, and every id has a position.    *)
LEMMA IdsAreAll ==
  ASSUME NEW d, IsAnswer(d)
  PROVE  LET ids == SortedIds(d.apps)
             n == Cardinality(DOMAIN d.apps)
         IN  /\ \A i, j \in 1..n : i # j => ids[i] # ids[j]
             /\ \A app \in DOMAIN d.apps : \E i \in 1..n : ids[i] = app
<1> DEFINE S == DOMAIN d.apps
           n == Cardinality(S)
           ids == SortedIds(d.apps)
<1>1. S \in SUBSET Nat /\ IsFiniteSet(S)
  BY DEF IsAnswer
<1>2. /\ n \in Nat /\ ids \in [1..n -> S]
      /\ \A i, j \in 1..n : i < j => ids[i] < ids[j]
  BY IdsAreSorted
<1> HIDE DEF ids
<1>3. ASSUME NEW i \in 1..n, NEW j \in 1..n, i # j PROVE ids[i] # ids[j]
  <2> HIDE DEF n
  <2>1. i \in Nat /\ j \in Nat /\ ids[i] \in Nat /\ ids[j] \in Nat
    BY <1>1, <1>2
  <2>2. i < j \/ j < i
    BY <1>3, <2>1
  <2> QED BY <1>2, <2>1, <2>2
<1>4. ids \in Injection(1..n, S)
  BY <1>2, <1>3 DEF Injection, IsInjective
<1>5. Cardinality(1..n) = n
  <2> HIDE DEF n
  <2> QED BY <1>2, FS_Interval
<1>6. ids \in Surjection(1..n, S)
  BY <1>1, <1>4, <1>5, FS_Injection
<1> QED
  BY <1>3, <1>6 DEF Surjection, ids

-----------------------------------------------------------------------------
(* Instances have an operator of their own for what they extend.           *)
LEMMA Flattened == \A ss : Parse!FlattenSeq(ss) = FlattenSeq(ss)
BY DEF FlattenSeq, Parse!FlattenSeq

-----------------------------------------------------------------------------
(* What an answer is made of.                                              *)
Variables == [name : VariableNames, type : {"int", "slice"}]

KeysOfApps == {"hsch", "nui", "tkv", "tt", "tb", "ui", "bytes"}

KeysOfAccount == {"algo", "apar", "appl", "ebase", "tsch"}

Names == VariableNames \cup KeysOfApps \cup KeysOfAccount

NamesIn(variables, names) == \A i \in DOMAIN variables : variables[i].name \in names

(* Strings with known names, numbers and maps are tokens over these names. *)
LEMMA OneToken ==
  ASSUME NEW names
  PROVE  /\ \A s \in names : Str(s) \in TokensWith(names)
         /\ \A n \in Nat : UInt(n) \in TokensWith(names) /\ MapOf(n) \in TokensWith(names)
BY DEF TokensWith

(* The tokens of a variable.                                               *)
LEMMA VariableTyped ==
  ASSUME NEW names, KeysOfApps \subseteq names, NEW v \in Variables, v.name \in names
  PROVE  VariableTokens(v) \in Seq(TokensWith(names))
<1> DEFINE T == TokensWith(names)
<1>1. /\ Str(v.name) \in T /\ Str("tt") \in T /\ Str("ui") \in T /\ Str("tb") \in T
      /\ Str("bytes") \in T /\ MapOf(2) \in T /\ UInt(1) \in T /\ UInt(2) \in T
  BY OneToken DEF KeysOfApps
<1> HIDE DEF T
<1>2. /\ <<Str(v.name), MapOf(2), Str("tt"), UInt(2), Str("ui"), UInt(1)>> \in Seq(T)
      /\ <<Str(v.name), MapOf(2), Str("tb"), Str("bytes"), Str("tt"), UInt(1)>> \in Seq(T)
  BY <1>1
<1> QED
  BY <1>2 DEF VariableTokens, T

VariablesTokens(variables) == [i \in 1..Len(variables) |-> VariableTokens(variables[i])]

AppHead(app, count) ==
  <<UInt(app), MapOf(2), Str("hsch"), MapOf(1), Str("nui"), UInt(1), Str("tkv"), MapOf(count)>>

(* The tokens of an application: its head, and those of its variables.     *)
LEMMA AppTyped ==
  ASSUME NEW names, KeysOfApps \subseteq names, NEW app \in Nat,
         NEW variables \in Seq(Variables), NamesIn(variables, names)
  PROVE  /\ AppTokens(app, variables) = AppHead(app, Len(variables)) \o FlattenSeq(VariablesTokens(variables))
         /\ AppHead(app, Len(variables)) \in Seq(TokensWith(names))
         /\ VariablesTokens(variables) \in Seq(Seq(TokensWith(names)))
         /\ FlattenSeq(VariablesTokens(variables)) \in Seq(TokensWith(names))
         /\ AppTokens(app, variables) \in Seq(TokensWith(names))
<1> DEFINE T == TokensWith(names)
           n == Len(variables)
           ss == VariablesTokens(variables)
           h == AppHead(app, n)
<1>1. n \in Nat /\ DOMAIN variables = 1..n /\ \A i \in 1..n : variables[i] \in Variables
  OBVIOUS
<1>2. \A i \in 1..n : VariableTokens(variables[i]) \in Seq(T)
  BY <1>1, VariableTyped DEF NamesIn
<1>3. ss \in Seq(Seq(T))
  <2> HIDE DEF n, T
  <2> QED BY <1>1, <1>2 DEF VariablesTokens, n
<1>4. /\ UInt(app) \in T /\ MapOf(2) \in T /\ Str("hsch") \in T /\ MapOf(1) \in T
      /\ Str("nui") \in T /\ UInt(1) \in T /\ Str("tkv") \in T /\ MapOf(n) \in T
  BY <1>1, OneToken DEF KeysOfApps
<1>5. h \in Seq(T)
  <2> HIDE DEF T, n
  <2> QED BY <1>4 DEF AppHead
<1> HIDE DEF T
<1>6. FlattenSeq(ss) \in Seq(T)
  BY <1>3, Parse!FlattenSequence, Flattened
<1>7. AppTokens(app, variables) = h \o FlattenSeq(ss)
  BY DEF AppTokens, AppHead, VariablesTokens
<1> HIDE DEF ss, h
<1>8. AppTokens(app, variables) \in Seq(T)
  BY <1>5, <1>6, <1>7, ConcatProperties
<1> QED
  BY <1>3, <1>5, <1>6, <1>7, <1>8 DEF T, n, ss, h

IdsOf(d) == SortedIds(d.apps)

AppCount(d) == Cardinality(DOMAIN d.apps)

AllAppTokens(d) == [i \in 1..AppCount(d) |-> AppTokens(IdsOf(d)[i], d.apps[IdsOf(d)[i]])]

(* The applications of an answer, and their tokens.                        *)
LEMMA AnswerApps ==
  ASSUME NEW d, IsAnswer(d), NEW names, KeysOfApps \subseteq names,
         \A app \in DOMAIN d.apps : NamesIn(d.apps[app], names)
  PROVE  /\ AppCount(d) \in Nat
         /\ \A i \in 1..AppCount(d) : /\ IdsOf(d)[i] \in DOMAIN d.apps /\ IdsOf(d)[i] \in Nat
                                      /\ d.apps[IdsOf(d)[i]] \in Seq(Variables)
         /\ AllAppTokens(d) \in Seq(Seq(TokensWith(names)))
         /\ Len(AllAppTokens(d)) = AppCount(d)
         /\ AppsTokens(d.apps) = FlattenSeq(AllAppTokens(d))
         /\ AppsTokens(d.apps) \in Seq(TokensWith(names))
<1> DEFINE T == TokensWith(names)
           n == AppCount(d)
           ids == IdsOf(d)
           ss == AllAppTokens(d)
<1>1. n \in Nat /\ \A i \in 1..n : ids[i] \in DOMAIN d.apps
  BY IdsAreSorted DEF IdsOf, AppCount
<1>2. \A app \in DOMAIN d.apps : app \in Nat /\ d.apps[app] \in Seq(Variables)
  BY DEF IsAnswer, Variables
<1>3. ASSUME NEW i \in 1..n PROVE AppTokens(ids[i], d.apps[ids[i]]) \in Seq(T)
  <2> DEFINE app == ids[i]
             vs == d.apps[app]
  <2>1. app \in Nat /\ vs \in Seq(Variables) /\ NamesIn(vs, names)
    BY <1>1, <1>2
  <2> HIDE DEF app, vs
  <2>2. AppTokens(app, vs) \in Seq(T)
    BY <2>1, AppTyped
  <2> QED BY <2>2 DEF app, vs
<1> HIDE DEF T
<1>4. ss = [i \in 1..n |-> AppTokens(ids[i], d.apps[ids[i]])]
  BY DEF AllAppTokens
<1>5. AppsTokens(d.apps) = FlattenSeq(ss)
  BY DEF AppsTokens, AllAppTokens, IdsOf, AppCount
<1> HIDE DEF n, ids, ss
<1>6. ss \in Seq(Seq(T)) /\ Len(ss) = n
  BY <1>1, <1>3, <1>4
<1>7. FlattenSeq(ss) \in Seq(T)
  BY <1>6, Parse!FlattenSequence, Flattened
<1> QED
  BY <1>1, <1>2, <1>5, <1>6, <1>7 DEF T, n, ids, ss

AlgoTokens(d) == IF d.algo # 0 THEN <<Str("algo"), UInt(d.algo)>> ELSE <<>>

AssetTokens(d) == IF d.assets THEN <<Str("apar"), MapOf(0)>> ELSE <<>>

ListTokens(d) ==
  IF DOMAIN d.apps # {} THEN <<Str("appl"), MapOf(AppCount(d))>> \o AppsTokens(d.apps) ELSE <<>>

LastTokens == <<Str("ebase"), UInt(1), Str("tsch"), MapOf(1), Str("nui"), UInt(1)>>

FieldCount(d) ==
  2 + (IF d.algo # 0 THEN 1 ELSE 0) + (IF d.assets THEN 1 ELSE 0) + (IF DOMAIN d.apps # {} THEN 1 ELSE 0)

(* The tokens of the parts of an answer.                                   *)
LEMMA BodyTyped ==
  ASSUME NEW d, IsAnswer(d)
  PROVE  /\ AlgoTokens(d) \in Seq(TokensWith(Names)) /\ AssetTokens(d) \in Seq(TokensWith(Names))
         /\ ListTokens(d) \in Seq(TokensWith(Names)) /\ LastTokens \in Seq(TokensWith(Names))
         /\ FieldCount(d) \in Nat
<1> DEFINE T == TokensWith(Names)
<1>1. /\ Str("algo") \in T /\ UInt(d.algo) \in T /\ Str("apar") \in T /\ MapOf(0) \in T
      /\ Str("appl") \in T /\ Str("ebase") \in T /\ Str("tsch") \in T /\ Str("nui") \in T
      /\ UInt(1) \in T /\ MapOf(1) \in T
  BY OneToken DEF IsAnswer, Names, KeysOfApps, KeysOfAccount
<1>2. AppCount(d) \in Nat /\ AppsTokens(d.apps) \in Seq(T)
  <2>1. ASSUME NEW app \in DOMAIN d.apps PROVE NamesIn(d.apps[app], Names)
    <3>1. d.apps[app] \in Seq(Variables)
      BY DEF IsAnswer, Variables
    <3>2. \A i \in DOMAIN d.apps[app] : d.apps[app][i].name \in VariableNames
      <4> DEFINE vs == d.apps[app]
      <4>1. vs \in Seq(Variables)
        BY <3>1
      <4> HIDE DEF vs
      <4>2. \A i \in DOMAIN vs : vs[i] \in Variables
        BY <4>1
      <4>3. \A v \in Variables : v.name \in VariableNames
        BY DEF Variables
      <4>4. \A i \in DOMAIN vs : vs[i].name \in VariableNames
        BY <4>2, <4>3
      <4> QED BY <4>4 DEF vs
    <3> QED BY <3>2 DEF NamesIn, Names
  <2>2. KeysOfApps \subseteq Names
    BY DEF Names
  <2> QED BY <2>1, <2>2, AnswerApps
<1>3. MapOf(AppCount(d)) \in T
  BY <1>2, OneToken
<1> HIDE DEF T
<1>4. AlgoTokens(d) \in Seq(T)
  BY <1>1 DEF AlgoTokens
<1>5. AssetTokens(d) \in Seq(T)
  BY <1>1 DEF AssetTokens
<1>6. ListTokens(d) \in Seq(T)
  <2> DEFINE h == <<Str("appl"), MapOf(AppCount(d))>>
  <2>1. h \in Seq(T) /\ <<>> \in Seq(T)
    BY <1>1, <1>3
  <2> HIDE DEF h
  <2>2. h \o AppsTokens(d.apps) \in Seq(T)
    BY <1>2, <2>1, ConcatProperties
  <2> QED BY <2>1, <2>2 DEF ListTokens, h
<1>7. LastTokens \in Seq(T)
  BY <1>1 DEF LastTokens
<1>8. FieldCount(d) \in Nat
  BY DEF FieldCount
<1> QED
  BY <1>4, <1>5, <1>6, <1>7, <1>8 DEF T

(* Reading an answer is reading its parts, one after the other.            *)
AfterAlgo(d, a) == Parse!Fold(At("ROOT", Append(<<>>, 2 * FieldCount(d)), a), AlgoTokens(d))

AfterAssets(d, a) == Parse!Fold(AfterAlgo(d, a), AssetTokens(d))

AfterList(d, a) == Parse!Fold(AfterAssets(d, a), ListTokens(d))

AfterLast(d, a) == Parse!Fold(AfterList(d, a), LastTokens)

(* Reading an answer is reading its parts, one after the other.            *)
LEMMA ReadingInParts ==
  ASSUME NEW d, IsAnswer(d), NEW a
  PROVE  parser_account_mpack(Tokens(d), a) = EndOfAnswer(AfterLast(d, a)).account
<1> DEFINE T == TokensWith(Names)
           m == MapOf(FieldCount(d))
           x == AlgoTokens(d)
           y == AssetTokens(d)
           z == ListTokens(d)
           w == LastTokens
           body == ((x \o y) \o z) \o w
           st == At("ROOT", Append(<<>>, 2 * FieldCount(d)), a)
<1>1. x \in Seq(T) /\ y \in Seq(T) /\ z \in Seq(T) /\ w \in Seq(T) /\ FieldCount(d) \in Nat
  BY BodyTyped
<1>2. Tokens(d) = (((<<m>> \o x) \o y) \o z) \o w
  BY DEF Tokens, AlgoTokens, AssetTokens, ListTokens, LastTokens, FieldCount, AppCount
<1>3. m \in T
  BY <1>1, OneToken
<1> HIDE DEF T, m, x, y, z, w, st
<1>4. <<m>> \in Seq(T) /\ x \o y \in Seq(T)
  BY <1>1, <1>3, ConcatProperties
<1>5. (x \o y) \o z \in Seq(T) /\ (<<m>> \o x) \o y = <<m>> \o (x \o y)
  BY <1>1, <1>4, ConcatProperties, ConcatAssociative
<1>6. ((<<m>> \o x) \o y) \o z = <<m>> \o ((x \o y) \o z)
  <2> DEFINE one == <<m>>
             xy == x \o y
  <2>1. one \in Seq(T) /\ xy \in Seq(T) /\ (one \o x) \o y = one \o xy
    BY <1>4, <1>5
  <2> HIDE DEF one, xy
  <2>2. (one \o xy) \o z = one \o (xy \o z)
    <3>1. one \in Seq(T) /\ xy \in Seq(T) /\ z \in Seq(T)
      BY <1>1, <2>1
    <3> QED BY <3>1, ConcatAssociative
  <2> QED BY <2>1, <2>2 DEF one, xy
<1>7. Tokens(d) = <<m>> \o body /\ body \in Seq(T)
  <2> DEFINE one == <<m>>
             xyz == (x \o y) \o z
  <2>1. one \in Seq(T) /\ xyz \in Seq(T) /\ Tokens(d) = (one \o xyz) \o w
    BY <1>2, <1>4, <1>5, <1>6
  <2> HIDE DEF one, xyz
  <2>2. (one \o xyz) \o w = one \o (xyz \o w) /\ xyz \o w \in Seq(T)
    <3>1. one \in Seq(T) /\ xyz \in Seq(T) /\ w \in Seq(T)
      BY <1>1, <2>1
    <3> QED BY <3>1, ConcatAssociative, ConcatProperties, SMTT(30)
  <2> QED BY <2>1, <2>2 DEF one, xyz
<1>8. Head(Tokens(d)) = m /\ Tail(Tokens(d)) = body
  <2> HIDE DEF body
  <2> QED BY <1>3, <1>7
<1>9. parser_account_mpack(Tokens(d), a) = EndOfAnswer(Parse!Fold(st, body)).account
  <2>1. m.value = FieldCount(d)
    BY DEF m, MapOf
  <2>2. [step |-> "ROOT", open |-> <<2 * Head(Tokens(d)).value>>, err |-> FALSE, account |-> a] = st
    <3>1. <<2 * FieldCount(d)>> = Append(<<>>, 2 * FieldCount(d))
      OBVIOUS
    <3> QED BY <1>8, <2>1, <3>1 DEF st, At, Parts
  <2> HIDE DEF body
  <2>3. parser_account_mpack(Tokens(d), a) = EndOfAnswer(FoldLeft(parse_element, st, body)).account
    BY <1>8, <2>2 DEF parser_account_mpack
  <2>4. FoldLeft(parse_element, st, body) = Parse!Fold(st, body)
    BY ParserFolds, Zenon
  <2> QED BY <2>3, <2>4, Zenon
<1>10. Parse!Fold(st, body) = Parse!Fold(Parse!Fold(Parse!Fold(Parse!Fold(st, x), y), z), w)
  <2>1. Parse!Fold(st, x \o y) = Parse!Fold(Parse!Fold(st, x), y)
    BY <1>1, Parse!FoldConcat
  <2>2. Parse!Fold(st, (x \o y) \o z) = Parse!Fold(Parse!Fold(st, x \o y), z)
    <3> DEFINE xy == x \o y
    <3>1. xy \in Seq(T)
      BY <1>4
    <3> HIDE DEF xy
    <3>2. Parse!Fold(st, xy \o z) = Parse!Fold(Parse!Fold(st, xy), z)
      BY <1>1, <3>1, Parse!FoldConcat
    <3> QED BY <3>2 DEF xy
  <2>3. Parse!Fold(st, body) = Parse!Fold(Parse!Fold(st, (x \o y) \o z), w)
    <3> DEFINE xyz == (x \o y) \o z
    <3>1. xyz \in Seq(T)
      BY <1>5
    <3> HIDE DEF xyz
    <3>2. Parse!Fold(st, xyz \o w) = Parse!Fold(Parse!Fold(st, xyz), w)
      BY <1>1, <3>1, Parse!FoldConcat
    <3> QED BY <3>2 DEF xyz
  <2> QED BY <2>1, <2>2, <2>3
<1>11. AfterLast(d, a) = Parse!Fold(Parse!Fold(Parse!Fold(Parse!Fold(st, x), y), z), w)
  BY DEF AfterLast, AfterList, AfterAssets, AfterAlgo, st, x, y, z, w
<1> QED
  BY <1>9, <1>10, <1>11

-----------------------------------------------------------------------------
(* From an answer an account gets an amount that an int32_t can hold, no   *)
(* more applications than there is room for, and loses nothing.            *)
LEMMA StartIn ==
  ASSUME NEW d, IsAnswer(d), NEW K, NEW a, <<"ROOT", a>> \in K
  PROVE  At("ROOT", Append(<<>>, 2 * FieldCount(d)), a) \in StatesOf(K)
<1> DEFINE o == Append(<<>>, 2 * FieldCount(d))
<1>1. o \in Seq(Int)
  BY BodyTyped
<1> HIDE DEF o
<1>2. At("ROOT", o, a) \in StatesOf(K)
  BY <1>1, InStatesOf
<1> QED
  BY <1>2 DEF o

(* An answer, whatever it says, adds to the details and takes nothing      *)
(* away.                                                                   *)
LEMMA AnswerGrows ==
  ASSUME NEW d, IsAnswer(d), NEW a \in Details
  PROVE  /\ parser_account_mpack(Tokens(d), a) \in Details
         /\ Grows(a, parser_account_mpack(Tokens(d), a))
<1> DEFINE K == Reached(a)
<1>1. <<"ROOT", a>> \in K
  <2>1. "ROOT" \in AppSteps \cup OtherSteps /\ "ROOT" \notin AppSteps
    BY DEF AppSteps, OtherSteps
  <2> QED BY <2>1, GrowsReflexive DEF Reached
<1>2. Closed(K, Names)
  BY ReachedClosed
<1> HIDE DEF K
<1>3. AfterAlgo(d, a) \in StatesOf(K)
  BY <1>1, <1>2, StartIn, BodyTyped, ReadKeeps DEF AfterAlgo
<1>4. AfterAssets(d, a) \in StatesOf(K)
  BY <1>2, <1>3, BodyTyped, ReadKeeps DEF AfterAssets
<1>5. AfterList(d, a) \in StatesOf(K)
  BY <1>2, <1>4, BodyTyped, ReadKeeps DEF AfterList
<1>6. AfterLast(d, a) \in StatesOf(K)
  BY <1>2, <1>5, BodyTyped, ReadKeeps DEF AfterLast
<1>7. PICK ka \in K : parser_account_mpack(Tokens(d), a) = ka[2]
  BY <1>2, <1>6, EndKeeps, ReadingInParts
<1> QED
  BY <1>7 DEF K, Reached

-----------------------------------------------------------------------------
(* An element that is not the last one of its map.                         *)
LEMMA StrOn ==
  ASSUME NEW step, NEW q \in Seq(Int), NEW n \in Int, n # 1, NEW a, NEW s, ~StringFails(step, a, s),
         StringFails(step, a, s) \in BOOLEAN
  PROVE  parse_element(At(step, Append(q, n), a), Str(s)) = At(StringStep(step, s), Append(q, n - 1), a)
<1> DEFINE next == StringStep(step, s)
<1>1. (IF StringFails(step, a, s) THEN 0 ELSE n - 1) = n - 1 /\ n - 1 \in Int /\ n - 1 # 0
  OBVIOUS
<1>2. parse_element(At(step, Append(q, n), a), Str(s)) =
        LeaveMaps(At(next, Append(q, IF StringFails(step, a, s) THEN 0 ELSE n - 1), a))
  BY ParseStr
<1> HIDE DEF next
<1>3. LeaveMaps(At(next, Append(q, n - 1), a)) = At(next, Append(q, n - 1), a)
  <2> DEFINE k == n - 1
  <2>1. k \in Int /\ k # 0
    BY <1>1
  <2> HIDE DEF k
  <2>2. LeaveMaps(At(next, Append(q, k), a)) = At(next, Append(q, k), a)
    BY <2>1, StayIn
  <2> QED BY <2>2 DEF k
<1> QED
  BY <1>1, <1>2, <1>3 DEF next

(* A number read inside a map, where there is a place for it.              *)
LEMMA UIntOn ==
  ASSUME NEW step, NEW q \in Seq(Int), NEW n \in Int, NEW a, NEW v, ~NoRoomFor(step, a)
  PROVE  /\ parse_element(At(step, Append(q, n), a), UInt(v)) =
              LeaveMaps(At(UIntStep(step, a), Append(q, n - 1), UIntAccount(step, a, v)))
         /\ n # 1 => parse_element(At(step, Append(q, n), a), UInt(v)) =
                      At(UIntStep(step, a), Append(q, n - 1), UIntAccount(step, a, v))
<1> DEFINE next == UIntStep(step, a)
           b == UIntAccount(step, a, v)
           k == n - 1
<1>1. (IF NoRoomFor(step, a) THEN 0 ELSE n - 1) = k /\ k \in Int /\ (n # 1 => k # 0)
  OBVIOUS
<1>2. parse_element(At(step, Append(q, n), a), UInt(v)) =
        LeaveMaps(At(next, Append(q, IF NoRoomFor(step, a) THEN 0 ELSE n - 1), b))
  BY ParseUInt
<1> HIDE DEF next, b, k
<1>3. parse_element(At(step, Append(q, n), a), UInt(v)) = LeaveMaps(At(next, Append(q, k), b))
  BY <1>1, <1>2
<1>4. k # 0 => LeaveMaps(At(next, Append(q, k), b)) = At(next, Append(q, k), b)
  BY <1>1, StayIn
<1> QED
  BY <1>1, <1>3, <1>4 DEF next, b, k

(* The start of a map that is not empty.                                   *)
LEMMA MapOn ==
  ASSUME NEW step, NEW q \in Seq(Int), NEW n \in Int, NEW a, NEW m \in Nat, m # 0
  PROVE  parse_element(At(step, Append(q, n), a), MapOf(m)) = At(step, Append(Append(q, n), 2 * m), a)
<1> DEFINE r == Append(q, n)
           k == 2 * m
<1>1. r \in Seq(Int) /\ k \in Int /\ k # 0
  OBVIOUS
<1>2. parse_element(At(step, r, a), MapOf(m)) = LeaveMaps(At(step, Append(r, k), a))
  BY ParseMap
<1> HIDE DEF r, k
<1>3. LeaveMaps(At(step, Append(r, k), a)) = At(step, Append(r, k), a)
  BY <1>1, StayIn
<1> QED
  BY <1>2, <1>3 DEF r, k

(* The start of a map of two fields.                                       *)
LEMMA PairOn ==
  ASSUME NEW step, NEW r \in Seq(Int), r # <<>>, NEW a
  PROVE  parse_element(At(step, r, a), MapOf(2)) = At(step, Append(r, 4), a)
<1>1. PICK q \in Seq(Int), n \in Int : r = Append(q, n)
  BY OpenParts
<1>2. 2 \in Nat /\ 2 # 0
  OBVIOUS
<1>3. parse_element(At(step, Append(q, n), a), MapOf(2)) = At(step, Append(Append(q, n), 2 * 2), a)
  BY <1>2, MapOn
<1> QED
  BY <1>1, <1>3

(* The keys of an account and of an application are understood where they  *)
(* are expected.                                                           *)
Understood(step, s, next) == StringStep(step, s) = next /\ \A a : StringFails(step, a, s) = FALSE

(* The keys that lead from step to step.                                   *)
LEMMA KeysUnderstood ==
  /\ Understood("ROOT", "algo", "ALGO") /\ Understood("ROOT", "appl", "APPL")
  /\ Understood("ROOT", "ebase", "EBASE") /\ Understood("ROOT", "tsch", "TSCH")
  /\ Understood("TSCH", "nui", "TSCH_NUI")
  /\ Understood("APPL_ID", "hsch", "APP_SCH") /\ Understood("APP_SCH", "nui", "APP_SCH_NUI")
  /\ Understood("APPL_ID", "tkv", "APP_KV")
  /\ Understood("APP_KV_VAR", "tt", "APP_KV_TYPE") /\ Understood("APP_KV_VAR", "tb", "APP_KV_SLICE")
  /\ Understood("APP_KV_VAR", "ui", "APP_KV_INT")
<1>1. ASSUME NEW step, NEW s, IsKey(step, s), NEW next, StepOfKey[step][s] = next
      PROVE  Understood(step, s, next)
  <2>1. StringStep(step, s) = next
    BY <1>1 DEF StringStep
  <2>2. ASSUME NEW a PROVE StringFails(step, a, s) = FALSE
    BY <1>1 DEF StringFails, StringErr
  <2> QED BY <2>1, <2>2 DEF Understood
<1>2. IsKey("ROOT", "algo") /\ StepOfKey["ROOT"]["algo"] = "ALGO"
  BY DEF IsKey, StepOfKey
<1>3. IsKey("ROOT", "appl") /\ StepOfKey["ROOT"]["appl"] = "APPL"
  BY DEF IsKey, StepOfKey
<1>4. IsKey("ROOT", "ebase") /\ StepOfKey["ROOT"]["ebase"] = "EBASE"
  BY DEF IsKey, StepOfKey
<1>5. IsKey("ROOT", "tsch") /\ StepOfKey["ROOT"]["tsch"] = "TSCH"
  BY DEF IsKey, StepOfKey
<1>6. IsKey("TSCH", "nui") /\ StepOfKey["TSCH"]["nui"] = "TSCH_NUI"
  BY DEF IsKey, StepOfKey
<1>7. IsKey("APPL_ID", "hsch") /\ StepOfKey["APPL_ID"]["hsch"] = "APP_SCH"
  BY DEF IsKey, StepOfKey
<1>8. IsKey("APP_SCH", "nui") /\ StepOfKey["APP_SCH"]["nui"] = "APP_SCH_NUI"
  BY DEF IsKey, StepOfKey
<1>9. IsKey("APPL_ID", "tkv") /\ StepOfKey["APPL_ID"]["tkv"] = "APP_KV"
  BY DEF IsKey, StepOfKey
<1>10. IsKey("APP_KV_VAR", "tt") /\ StepOfKey["APP_KV_VAR"]["tt"] = "APP_KV_TYPE"
  BY DEF IsKey, StepOfKey
<1>11. IsKey("APP_KV_VAR", "tb") /\ StepOfKey["APP_KV_VAR"]["tb"] = "APP_KV_SLICE"
  BY DEF IsKey, StepOfKey
<1>12. IsKey("APP_KV_VAR", "ui") /\ StepOfKey["APP_KV_VAR"]["ui"] = "APP_KV_INT"
  BY DEF IsKey, StepOfKey
<1> QED
  BY <1>1, <1>2, <1>3, <1>4, <1>5, <1>6, <1>7, <1>8, <1>9, <1>10, <1>11, <1>12

(* A key that is understood, read inside a map.                            *)
LEMMA KeyOn ==
  ASSUME NEW step, NEW s, NEW next, Understood(step, s, next),
         NEW q \in Seq(Int), NEW n \in Int, n # 1, NEW a
  PROVE  parse_element(At(step, Append(q, n), a), Str(s)) = At(next, Append(q, n - 1), a)
<1>1. StringStep(step, s) = next /\ ~StringFails(step, a, s) /\ StringFails(step, a, s) \in BOOLEAN
  BY DEF Understood
<1> QED
  BY <1>1, StrOn

(* A step that waits for a number and keeps nothing of it, if there is     *)
(* room, and the step after it.                                            *)
Awaited(step, a, next) == UIntStep(step, a) = next /\ ~NoRoomFor(step, a) /\ \A v : UIntAccount(step, a, v) = a

(* The steps that wait for a number of a schema or of a variable.          *)
LEMMA NumbersAwaited ==
  ASSUME NEW step, NEW a, NEW next, step \in DOMAIN StepOfUInt, StepOfUInt[step] = next,
         ~NoRoomFor(step, a), step # "ALGO", step # "APPL"
  PROVE  Awaited(step, a, next)
BY DEF Awaited, UIntStep, UIntAccount

(* A number that a step waits for, read inside a map.                      *)
LEMMA NumberOn ==
  ASSUME NEW step, NEW next, NEW a, Awaited(step, a, next), NEW q \in Seq(Int), NEW n \in Int, n # 1, NEW v
  PROVE  parse_element(At(step, Append(q, n), a), UInt(v)) = At(next, Append(q, n - 1), a)
<1>1. UIntStep(step, a) = next /\ ~NoRoomFor(step, a) /\ UIntAccount(step, a, v) = a
  BY DEF Awaited
<1> QED
  BY <1>1, UIntOn

(* The same at the end of the map. *)
LEMMA LastNumberOn ==
  ASSUME NEW step, NEW next, NEW a, Awaited(step, a, next), NEW q \in Seq(Int), NEW n \in Int, NEW v
  PROVE  parse_element(At(step, Append(q, n), a), UInt(v)) = LeaveMaps(At(next, Append(q, n - 1), a))
<1>1. UIntStep(step, a) = next /\ ~NoRoomFor(step, a) /\ UIntAccount(step, a, v) = a
  BY DEF Awaited
<1> QED
  BY <1>1, UIntOn

-----------------------------------------------------------------------------
(* One application, from the id to the first variable.                     *)
LEMMA HeadRead ==
  ASSUME NEW q \in Seq(Int), NEW n \in Int, n # 1, NEW b, b.app_idx < AppsMaxCount, b.app_idx \in Nat,
         NEW app, NEW l
  PROVE  Parse!Fold(At("APPL", Append(q, n), b), AppHead(app, l)) =
           LeaveMaps(At("APP_KV", Append(Append(Append(q, n - 1), 1), 2 * l), WithId(b, app)))
<1> DEFINE s == AppHead(app, l)
           c == WithId(b, app)
           r == Append(q, n - 1)
           T == {UInt(app), MapOf(2), Str("hsch"), MapOf(1), Str("nui"), UInt(1), Str("tkv"), MapOf(l)}
           st == At("APPL", Append(q, n), b)
<1>1. /\ s \in Seq(T) /\ Len(s) = 8
      /\ s[1] = UInt(app) /\ s[2] = MapOf(2) /\ s[3] = Str("hsch") /\ s[4] = MapOf(1)
      /\ s[5] = Str("nui") /\ s[6] = UInt(1) /\ s[7] = Str("tkv") /\ s[8] = MapOf(l)
  BY DEF AppHead
<1>2. r \in Seq(Int)
  OBVIOUS
<1> HIDE DEF s, T, c, st
<1>3. PICK f : Parse!Steps(st, s, f) /\ Parse!Fold(st, s) = f[Len(s)]
  BY <1>1, Parse!FoldSteps
<1>4. f[0] = st /\ \A k \in 1..8 : f[k] = parse_element(f[k - 1], s[k])
  BY <1>1, <1>3 DEF Parse!Steps
<1>5. /\ f[1] = parse_element(st, UInt(app)) /\ f[2] = parse_element(f[1], MapOf(2))
      /\ f[3] = parse_element(f[2], Str("hsch")) /\ f[4] = parse_element(f[3], MapOf(1))
      /\ f[5] = parse_element(f[4], Str("nui")) /\ f[6] = parse_element(f[5], UInt(1))
      /\ f[7] = parse_element(f[6], Str("tkv")) /\ f[8] = parse_element(f[7], MapOf(l))
  BY <1>1, <1>4
<1>6. parse_element(st, UInt(app)) = At("APPL_ID", r, c)
  <2>1. ~NoRoomFor("APPL", b)
    BY AccountParserAssumption DEF NoRoomFor
  <2>2. UIntStep("APPL", b) = "APPL_ID" /\ UIntAccount("APPL", b, app) = c
    BY <2>1 DEF UIntStep, UIntAccount, StepOfUInt, c
  <2>3. parse_element(st, UInt(app)) = At(UIntStep("APPL", b), r, UIntAccount("APPL", b, app))
    BY <2>1, UIntOn DEF st
  <2> QED BY <2>2, <2>3
<1> HIDE DEF r
<1>7. parse_element(At("APPL_ID", r, c), MapOf(2)) = At("APPL_ID", Append(r, 4), c)
  <2>1. r # <<>>
    BY AppendParts DEF r
  <2> QED BY <1>2, <2>1, PairOn
<1>8. parse_element(At("APPL_ID", Append(r, 4), c), Str("hsch")) = At("APP_SCH", Append(r, 3), c)
  <2>1. parse_element(At("APPL_ID", Append(r, 4), c), Str("hsch")) = At("APP_SCH", Append(r, 4 - 1), c)
    BY <1>2, KeyOn, KeysUnderstood
  <2> QED BY <2>1
<1>9. parse_element(At("APP_SCH", Append(r, 3), c), MapOf(1)) = At("APP_SCH", Append(Append(r, 3), 2), c)
  <2>1. parse_element(At("APP_SCH", Append(r, 3), c), MapOf(1)) = At("APP_SCH", Append(Append(r, 3), 2 * 1), c)
    BY <1>2, MapOn, SMTT(30)
  <2> QED BY <2>1
<1> DEFINE r3 == Append(r, 3)
<1>10. r3 \in Seq(Int)
  BY <1>2
<1> HIDE DEF r3
<1>11. parse_element(At("APP_SCH", Append(r3, 2), c), Str("nui")) = At("APP_SCH_NUI", Append(r3, 1), c)
  <2>1. parse_element(At("APP_SCH", Append(r3, 2), c), Str("nui")) = At("APP_SCH_NUI", Append(r3, 2 - 1), c)
    BY <1>10, KeyOn, KeysUnderstood
  <2> QED BY <2>1
<1>12. parse_element(At("APP_SCH_NUI", Append(r3, 1), c), UInt(1)) = At("APPL_ID", Append(r, 2), c)
  <2>1. Awaited("APP_SCH_NUI", c, "APP_SCH")
    <3>1. /\ ~NoRoomFor("APP_SCH_NUI", c)
          /\ "APP_SCH_NUI" \in DOMAIN StepOfUInt /\ StepOfUInt["APP_SCH_NUI"] = "APP_SCH"
      BY DEF NoRoomFor, StepOfUInt
    <3> QED BY <3>1, NumbersAwaited
  <2>2. parse_element(At("APP_SCH_NUI", Append(r3, 1), c), UInt(1)) = LeaveMaps(At("APP_SCH", Append(r3, 1 - 1), c))
    BY <1>10, <2>1, LastNumberOn
  <2>3. LeaveMaps(At("APP_SCH", Append(Append(r, 3), 0), c)) =
          LeaveMaps(At(FinishStep("APP_SCH"), Append(r, 3 - 1), FinishAccount("APP_SCH", c)))
    BY <1>2, LeaveInner
  <2>4. FinishStep("APP_SCH") = "APPL_ID" /\ FinishAccount("APP_SCH", c) = c
    BY DEF FinishStep, FinishAccount
  <2>5. LeaveMaps(At("APPL_ID", Append(r, 2), c)) = At("APPL_ID", Append(r, 2), c)
    BY <1>2, StayIn
  <2> QED BY <2>2, <2>3, <2>4, <2>5 DEF r3
<1>13. parse_element(At("APPL_ID", Append(r, 2), c), Str("tkv")) = At("APP_KV", Append(r, 1), c)
  <2>1. parse_element(At("APPL_ID", Append(r, 2), c), Str("tkv")) = At("APP_KV", Append(r, 2 - 1), c)
    BY <1>2, KeyOn, KeysUnderstood
  <2> QED BY <2>1
<1>14. parse_element(At("APP_KV", Append(r, 1), c), MapOf(l)) = LeaveMaps(At("APP_KV", Append(Append(r, 1), 2 * l), c))
  BY <1>2, ParseMap
<1>15. f[8] = LeaveMaps(At("APP_KV", Append(Append(r, 1), 2 * l), c))
  <2>1. f[2] = At("APPL_ID", Append(r, 4), c)
    BY <1>5, <1>6, <1>7
  <2>2. f[4] = At("APP_SCH", Append(Append(r, 3), 2), c)
    BY <1>5, <1>8, <1>9, <2>1
  <2>3. f[6] = At("APPL_ID", Append(r, 2), c)
    BY <1>5, <1>11, <1>12, <2>2 DEF r3
  <2> QED BY <1>5, <1>13, <1>14, <2>3
<1> QED
  BY <1>1, <1>3, <1>15 DEF s, st, r, c

(* One variable.  Its six tokens are read one by one.                      *)
IntTokens(v) == <<Str(v.name), MapOf(2), Str("tt"), UInt(2), Str("ui"), UInt(1)>>

SliceTokens(v) == <<Str(v.name), MapOf(2), Str("tb"), Str("bytes"), Str("tt"), UInt(1)>>

SixSteps(st, s, f) ==
  /\ f[1] = parse_element(st, s[1]) /\ f[2] = parse_element(f[1], s[2]) /\ f[3] = parse_element(f[2], s[3])
  /\ f[4] = parse_element(f[3], s[4]) /\ f[5] = parse_element(f[4], s[5]) /\ f[6] = parse_element(f[5], s[6])

(* Reading the six tokens of a variable, one at a time.                    *)
LEMMA SixRead ==
  ASSUME NEW st, NEW T, NEW s \in Seq(T), Len(s) = 6
  PROVE  \E f : SixSteps(st, s, f) /\ Parse!Fold(st, s) = f[6]
<1>1. PICK f : Parse!Steps(st, s, f) /\ Parse!Fold(st, s) = f[Len(s)]
  BY Parse!FoldSteps
<1>2. f[0] = st /\ \A k \in 1..6 : f[k] = parse_element(f[k - 1], s[k])
  BY <1>1 DEF Parse!Steps
<1>3. SixSteps(st, s, f)
  BY <1>2 DEF SixSteps
<1> QED
  BY <1>1, <1>3

(* The name of a variable, where there is a place for the variable.        *)
LEMMA NameRead ==
  ASSUME NEW q \in Seq(Int), NEW n \in Int, n # 1, NEW c, CountOf(c) \in Nat, CountOf(c) < AppsKvMaxCount,
         NEW s
  PROVE  parse_element(At("APP_KV", Append(q, n), c), Str(s)) = At("APP_KV_VAR", Append(q, n - 1), c)
<1>1. ~IsKey("APP_KV", s)
  BY DEF IsKey, StepOfKey
<1>2. StringStep("APP_KV", s) = "APP_KV_VAR"
  BY <1>1 DEF StringStep
<1>3. ~(CountOf(c) >= AppsKvMaxCount)
  BY AccountParserAssumption
<1>4. ~StringFails("APP_KV", c, s)
  BY <1>1, <1>3 DEF StringFails, StringErr
<1>5. StringFails("APP_KV", c, s) \in BOOLEAN
  BY <1>1 DEF StringFails, StringErr
<1>6. parse_element(At("APP_KV", Append(q, n), c), Str(s)) = At(StringStep("APP_KV", s), Append(q, n - 1), c)
  BY <1>4, <1>5, StrOn
<1> QED
  BY <1>2, <1>6

(* A variable of type uint, where there is a place for it, is counted and  *)
(* leaves the parser where the next one is read.                           *)
LEMMA IntRead ==
  ASSUME NEW q \in Seq(Int), NEW n \in Int, n # 1, NEW c, CountOf(c) \in Nat, CountOf(c) < AppsKvMaxCount,
         NEW v
  PROVE  Parse!Fold(At("APP_KV", Append(q, n), c), IntTokens(v)) =
           LeaveMaps(At("APP_KV", Append(q, n - 2), OneMore(c)))
<1> DEFINE s == IntTokens(v)
           r == Append(q, n - 1)
           T == {Str(v.name), MapOf(2), Str("tt"), UInt(2), Str("ui"), UInt(1)}
           st == At("APP_KV", Append(q, n), c)
<1>1. /\ s \in Seq(T) /\ Len(s) = 6
      /\ s[1] = Str(v.name) /\ s[2] = MapOf(2) /\ s[3] = Str("tt")
      /\ s[4] = UInt(2) /\ s[5] = Str("ui") /\ s[6] = UInt(1)
  BY DEF IntTokens
<1>2. r \in Seq(Int)
  OBVIOUS
<1>3. parse_element(st, Str(v.name)) = At("APP_KV_VAR", r, c)
  BY NameRead
<1> HIDE DEF s, T, st
<1>4. PICK f : SixSteps(st, s, f) /\ Parse!Fold(st, s) = f[6]
  BY <1>1, SixRead
<1>5. parse_element(At("APP_KV_VAR", r, c), MapOf(2)) = At("APP_KV_VAR", Append(r, 4), c)
  <2>1. r # <<>>
    BY AppendParts
  <2> HIDE DEF r
  <2> QED BY <1>2, <2>1, PairOn
<1>6. LeaveMaps(At("APP_KV_VAR", Append(r, 0), c)) = LeaveMaps(At("APP_KV", Append(q, n - 2), OneMore(c)))
  <2> DEFINE m == n - 1
  <2>1. m \in Int /\ m - 1 = n - 2
    OBVIOUS
  <2> HIDE DEF m
  <2>2. LeaveMaps(At("APP_KV_VAR", Append(Append(q, m), 0), c)) =
          LeaveMaps(At(FinishStep("APP_KV_VAR"), Append(q, m - 1), FinishAccount("APP_KV_VAR", c)))
    BY <2>1, LeaveInner
  <2>3. FinishStep("APP_KV_VAR") = "APP_KV" /\ FinishAccount("APP_KV_VAR", c) = OneMore(c)
    BY DEF FinishStep, FinishAccount
  <2> QED BY <2>1, <2>2, <2>3 DEF r, m
<1> HIDE DEF r
<1>7. parse_element(At("APP_KV_VAR", Append(r, 4), c), Str("tt")) = At("APP_KV_TYPE", Append(r, 3), c)
  <2>1. parse_element(At("APP_KV_VAR", Append(r, 4), c), Str("tt")) = At("APP_KV_TYPE", Append(r, 4 - 1), c)
    BY <1>2, KeyOn, KeysUnderstood
  <2> QED BY <2>1
<1>8. ~NoRoomFor("APP_KV_TYPE", c) /\ ~NoRoomFor("APP_KV_INT", c)
  BY AccountParserAssumption DEF NoRoomFor
<1>9. parse_element(At("APP_KV_TYPE", Append(r, 3), c), UInt(2)) = At("APP_KV_VAR", Append(r, 2), c)
  <2>1. Awaited("APP_KV_TYPE", c, "APP_KV_VAR")
    <3>1. "APP_KV_TYPE" \in DOMAIN StepOfUInt /\ StepOfUInt["APP_KV_TYPE"] = "APP_KV_VAR"
      BY DEF StepOfUInt
    <3> QED BY <1>8, <3>1, NumbersAwaited
  <2>2. parse_element(At("APP_KV_TYPE", Append(r, 3), c), UInt(2)) = At("APP_KV_VAR", Append(r, 3 - 1), c)
    BY <1>2, <2>1, NumberOn
  <2> QED BY <2>2
<1>10. parse_element(At("APP_KV_VAR", Append(r, 2), c), Str("ui")) = At("APP_KV_INT", Append(r, 1), c)
  <2>1. parse_element(At("APP_KV_VAR", Append(r, 2), c), Str("ui")) = At("APP_KV_INT", Append(r, 2 - 1), c)
    BY <1>2, KeyOn, KeysUnderstood
  <2> QED BY <2>1
<1>11. parse_element(At("APP_KV_INT", Append(r, 1), c), UInt(1)) = LeaveMaps(At("APP_KV_VAR", Append(r, 0), c))
  <2>1. Awaited("APP_KV_INT", c, "APP_KV_VAR")
    <3>1. "APP_KV_INT" \in DOMAIN StepOfUInt /\ StepOfUInt["APP_KV_INT"] = "APP_KV_VAR"
      BY DEF StepOfUInt
    <3> QED BY <1>8, <3>1, NumbersAwaited
  <2>2. parse_element(At("APP_KV_INT", Append(r, 1), c), UInt(1)) = LeaveMaps(At("APP_KV_VAR", Append(r, 1 - 1), c))
    BY <1>2, <2>1, LastNumberOn
  <2> QED BY <2>2
<1>12. f[2] = At("APP_KV_VAR", Append(r, 4), c)
  BY <1>1, <1>3, <1>4, <1>5 DEF SixSteps
<1>13. f[4] = At("APP_KV_VAR", Append(r, 2), c)
  BY <1>1, <1>4, <1>7, <1>9, <1>12 DEF SixSteps
<1>14. f[6] = LeaveMaps(At("APP_KV_VAR", Append(r, 0), c))
  BY <1>1, <1>4, <1>10, <1>11, <1>13 DEF SixSteps
<1> QED
  BY <1>4, <1>6, <1>14 DEF s, st

(* A byte slice is not understood, and the parser stays in that step.      *)
LEMMA SliceRead ==
  ASSUME NEW q \in Seq(Int), NEW n \in Int, n # 1, NEW c, CountOf(c) \in Nat, CountOf(c) < AppsKvMaxCount,
         NEW v, NEW names, KeysOfApps \subseteq names, v.name \in names,
         NEW K, Closed(K, names), <<"APP_KV_SLICE", c>> \in K
  PROVE  Parse!Fold(At("APP_KV", Append(q, n), c), SliceTokens(v)) \in StatesOf(K)
<1> DEFINE s == SliceTokens(v)
           r == Append(q, n - 1)
           T == TokensWith(names)
           st == At("APP_KV", Append(q, n), c)
<1>1. /\ s[1] = Str(v.name) /\ s[2] = MapOf(2) /\ s[3] = Str("tb")
      /\ s[4] = Str("bytes") /\ s[5] = Str("tt") /\ s[6] = UInt(1)
  BY DEF SliceTokens
<1>1a. /\ Str(v.name) \in T /\ Str("tb") \in T /\ Str("bytes") \in T /\ Str("tt") \in T
       /\ MapOf(2) \in T /\ UInt(1) \in T
  BY OneToken DEF KeysOfApps
<1>1b. s \in Seq(T) /\ Len(s) = 6
  <2> HIDE DEF T
  <2> QED BY <1>1a DEF SliceTokens
<1>2. r \in Seq(Int)
  OBVIOUS
<1>3. parse_element(st, Str(v.name)) = At("APP_KV_VAR", r, c)
  BY NameRead
<1> HIDE DEF s, T, st
<1>4. PICK f : SixSteps(st, s, f) /\ Parse!Fold(st, s) = f[6]
  BY <1>1b, SixRead
<1>5. parse_element(At("APP_KV_VAR", r, c), MapOf(2)) = At("APP_KV_VAR", Append(r, 4), c)
  <2>1. r # <<>>
    BY AppendParts
  <2> HIDE DEF r
  <2> QED BY <1>2, <2>1, PairOn
<1> HIDE DEF r
<1>6. parse_element(At("APP_KV_VAR", Append(r, 4), c), Str("tb")) = At("APP_KV_SLICE", Append(r, 3), c)
  <2>1. parse_element(At("APP_KV_VAR", Append(r, 4), c), Str("tb")) = At("APP_KV_SLICE", Append(r, 4 - 1), c)
    BY <1>2, KeyOn, KeysUnderstood
  <2> QED BY <2>1
<1>7. f[3] = At("APP_KV_SLICE", Append(r, 3), c)
  BY <1>1, <1>3, <1>4, <1>5, <1>6 DEF SixSteps
<1>8. f[3] \in StatesOf(K)
  <2> DEFINE o == Append(r, 3)
  <2>1. o \in Seq(Int)
    BY <1>2
  <2> HIDE DEF o
  <2>2. At("APP_KV_SLICE", o, c) \in StatesOf(K)
    BY <2>1, InStatesOf
  <2> QED BY <1>7, <2>2 DEF o
<1>9. f[4] \in StatesOf(K)
  BY <1>1, <1>1a, <1>4, <1>8, ElementKeeps DEF SixSteps, T
<1>10. f[5] \in StatesOf(K)
  BY <1>1, <1>1a, <1>4, <1>9, ElementKeeps DEF SixSteps, T
<1>11. f[6] \in StatesOf(K)
  BY <1>1, <1>1a, <1>4, <1>10, ElementKeeps DEF SixSteps, T
<1> QED
  BY <1>4, <1>11 DEF s, st

(* A variable for which there is no place is counted.                      *)
LEMMA VariableTooMany ==
  ASSUME NEW q \in Seq(Int), NEW m \in Int, NEW n \in Int, NEW c,
         CountOf(c) \in Nat, CountOf(c) >= AppsKvMaxCount,
         NEW v \in Variables, NEW names, KeysOfApps \subseteq names, v.name \in names,
         NEW K, Closed(K, names), <<"APP_KV", OneMore(c)>> \in K
  PROVE  Parse!Fold(At("APP_KV", Append(Append(q, m), n), c), VariableTokens(v)) \in StatesOf(K)
<1> DEFINE s == VariableTokens(v)
           r == Append(q, m)
           T == TokensWith(names)
           st == At("APP_KV", Append(r, n), c)
<1>1. /\ Len(s) = 6 /\ s[1] = Str(v.name)
  BY DEF VariableTokens
<1>1a. s \in Seq(T)
  BY VariableTyped
<1>2. r \in Seq(Int)
  OBVIOUS
<1>3. parse_element(st, Str(v.name)) = LeaveMaps(At("APP_KV_VAR", Append(r, 0), c))
  <2> DEFINE x == v.name
  <2> HIDE DEF r, x
  <2>1. ~IsKey("APP_KV", x)
    BY DEF IsKey, StepOfKey
  <2>2. StringStep("APP_KV", x) = "APP_KV_VAR"
    BY <2>1 DEF StringStep
  <2>3. StringFails("APP_KV", c, x) = (CountOf(c) >= AppsKvMaxCount)
    BY <2>1 DEF StringFails, StringErr
  <2>4. StringFails("APP_KV", c, x) \in BOOLEAN /\ (IF StringFails("APP_KV", c, x) THEN 0 ELSE n - 1) = 0
    BY <2>3
  <2>5. parse_element(At("APP_KV", Append(r, n), c), Str(x)) =
          LeaveMaps(At(StringStep("APP_KV", x), Append(r, IF StringFails("APP_KV", c, x) THEN 0 ELSE n - 1), c))
    BY <1>2, <2>4, ParseStr
  <2> QED BY <2>2, <2>4, <2>5 DEF x
<1>4. LeaveMaps(At("APP_KV_VAR", Append(r, 0), c)) \in StatesOf(K)
  <2> DEFINE o == Append(q, m - 1)
  <2>1. o \in Seq(Int)
    OBVIOUS
  <2>2. LeaveMaps(At("APP_KV_VAR", Append(r, 0), c)) =
          LeaveMaps(At(FinishStep("APP_KV_VAR"), o, FinishAccount("APP_KV_VAR", c)))
    BY LeaveInner
  <2>3. FinishStep("APP_KV_VAR") = "APP_KV" /\ FinishAccount("APP_KV_VAR", c) = OneMore(c)
    BY DEF FinishStep, FinishAccount
  <2> HIDE DEF o, r
  <2>4. At("APP_KV", o, OneMore(c)) \in StatesOf(K)
    BY <2>1, InStatesOf
  <2> QED BY <2>2, <2>3, <2>4, LeaveKeeps
<1> HIDE DEF s, T, st, r
<1>5. PICK f : SixSteps(st, s, f) /\ Parse!Fold(st, s) = f[6]
  BY <1>1, <1>1a, SixRead
<1>6. f[1] \in StatesOf(K)
  BY <1>1, <1>3, <1>4, <1>5 DEF SixSteps
<1>7. \A k \in 1..6 : s[k] \in T
  BY <1>1, <1>1a, ElementOfSeq
<1>8. s[2] \in T /\ s[3] \in T /\ s[4] \in T /\ s[5] \in T /\ s[6] \in T
  BY <1>7
<1>9. f[2] \in StatesOf(K)
  BY <1>5, <1>6, <1>8, ElementKeeps DEF SixSteps, T
<1>10. f[3] \in StatesOf(K)
  BY <1>5, <1>8, <1>9, ElementKeeps DEF SixSteps, T
<1>11. f[4] \in StatesOf(K)
  BY <1>5, <1>8, <1>10, ElementKeeps DEF SixSteps, T
<1>12. f[5] \in StatesOf(K)
  BY <1>5, <1>8, <1>11, ElementKeeps DEF SixSteps, T
<1>13. f[6] \in StatesOf(K)
  BY <1>5, <1>8, <1>12, ElementKeeps DEF SixSteps, T
<1> QED
  BY <1>5, <1>13 DEF s, st, r

(* The end of the variables is the end of the application.                 *)
LEMMA AppEnd ==
  ASSUME NEW q \in Seq(Int), NEW n \in Int, NEW c
  PROVE  LeaveMaps(At("APP_KV", Append(Append(Append(q, n), 1), 0), c)) =
           LeaveMaps(At("APPL", Append(q, n - 1), NextApp(c)))
<1> DEFINE r == Append(q, n)
<1>1. r \in Seq(Int)
  OBVIOUS
<1>2. LeaveMaps(At("APPL_ID", Append(Append(q, n), 0), c)) =
        LeaveMaps(At(FinishStep("APPL_ID"), Append(q, n - 1), FinishAccount("APPL_ID", c)))
  BY LeaveInner
<1> HIDE DEF r
<1>3. LeaveMaps(At("APP_KV", Append(Append(r, 1), 0), c)) =
        LeaveMaps(At(FinishStep("APP_KV"), Append(r, 1 - 1), FinishAccount("APP_KV", c)))
  BY <1>1, LeaveInner
<1>4. /\ FinishStep("APP_KV") = "APPL_ID" /\ FinishAccount("APP_KV", c) = c
      /\ FinishStep("APPL_ID") = "APPL" /\ FinishAccount("APPL_ID", c) = NextApp(c)
  BY DEF FinishStep, FinishAccount
<1> QED
  BY <1>2, <1>3, <1>4 DEF r

-----------------------------------------------------------------------------
(* Where an account may be when the parser has lost track: more variables  *)
(* were counted than there are places, there is no room for an             *)
(* application, or the parser is in a step that only the key of the        *)
(* applications leads back from.  The ids of the applications stay.        *)
Typed ==
  {ka \in (AppSteps \cup OtherSteps) \X Details : ka[1] \in AppSteps => ka[2].app_idx < AppsMaxCount}

OwnIds(a, A) == \A j \in 0..(a.app_idx - 1) : a.apps[j].app_id \in A

LostSteps == {"ROOT", "ALGO", "EBASE", "ERN", "TSCH", "TSCH_NUI", "APP_KV_SLICE"}

Over == {ka \in Typed : ka[2] \in {a \in Details : Overflowed(a)}}

Full(A) == {ka \in Typed : ka[2] \in {a \in Details : a.app_idx = AppsMaxCount /\ OwnIds(a, A)}}

Lost(A) ==
  {ka \in LostSteps \X Details :
     (ka[1] \in AppSteps => ka[2].app_idx < AppsMaxCount) /\ OwnIds(ka[2], A)}

Safe(A, names) == Over \cup Full(A) \cup (IF "appl" \in names THEN {} ELSE Lost(A))

(* Details that stay in a set when they grow make a closed set of states.  *)
LEMMA GrowsCloses ==
  ASSUME NEW names, NEW P \in SUBSET Details, \A a \in P : \A b \in Details : Grows(a, b) => b \in P
  PROVE  Closed({ka \in Typed : ka[2] \in P}, names)
<1> DEFINE K == {ka \in Typed : ka[2] \in P}
<1>1. ASSUME NEW ka \in K
      PROVE  /\ ka = <<ka[1], ka[2]>>
             /\ \A s \in names : /\ StringFails(ka[1], ka[2], s) \in BOOLEAN
                                 /\ <<StringStep(ka[1], s), ka[2]>> \in K
             /\ \A v \in Nat : <<UIntStep(ka[1], ka[2]), UIntAccount(ka[1], ka[2], v)>> \in K
             /\ <<FinishStep(ka[1]), FinishAccount(ka[1], ka[2])>> \in K
  <2> DEFINE R == Reached(ka[2])
  <2>1. ka[2] \in P /\ ka[2] \in Details /\ Grows(ka[2], ka[2])
    BY GrowsReflexive
  <2>2. ka \in R
    BY <2>1 DEF Typed, Reached
  <2>3. R \subseteq K
    BY <2>1 DEF Typed, Reached
  <2>4. Closed(R, names)
    BY <2>1, ReachedClosed
  <2> HIDE DEF R, K
  <2> QED BY <2>2, <2>3, <2>4 DEF Closed
<1> HIDE DEF K
<1>2. Closed(K, names)
  BY <1>1 DEF Closed
<1> QED
  BY <1>2 DEF K

(* Details that overflowed stay so.                                        *)
LEMMA OverClosed ==
  ASSUME NEW names
  PROVE  Closed(Over, names)
<1> DEFINE P == {a \in Details : Overflowed(a)}
<1>1. ASSUME NEW a \in P, NEW b \in Details, Grows(a, b) PROVE b \in P
  <2>1. PICK j \in AppIdxs : a.apps[j].kv_count > AppsKvMaxCount
    BY DEF Overflowed, Details
  <2>2. b.apps[j].kv_count > AppsKvMaxCount
    BY <1>1, <2>1, AccountParserAssumption DEF Grows, Details
  <2>3. j \in DOMAIN b.apps
    BY DEF Details
  <2> QED BY <2>2, <2>3 DEF Overflowed
<1> HIDE DEF P
<1>2. P \in SUBSET Details
  BY DEF P
<1>3. Closed({ka \in Typed : ka[2] \in P}, names)
  BY <1>1, <1>2, GrowsCloses
<1> QED
  BY <1>3 DEF Over, P

(* With all the applications read, the ids stay what they are.             *)
LEMMA FullClosed ==
  ASSUME NEW A, NEW names
  PROVE  Closed(Full(A), names)
<1> DEFINE P == {a \in Details : a.app_idx = AppsMaxCount /\ OwnIds(a, A)}
<1>1. ASSUME NEW a \in P, NEW b \in Details, Grows(a, b) PROVE b \in P
  <2>1. b.apps = a.apps /\ b.app_idx = AppsMaxCount
    BY <1>1, AccountParserAssumption DEF Grows, Details
  <2> QED BY <2>1 DEF OwnIds
<1> HIDE DEF P
<1>2. P \in SUBSET Details
  BY DEF P
<1>3. Closed({ka \in Typed : ka[2] \in P}, names)
  BY <1>1, <1>2, GrowsCloses
<1> QED
  BY <1>3 DEF Full, P

(* A parser that is lost outside the applications stays there, unless a    *)
(* name leads it back.                                                     *)
LEMMA LostClosed ==
  ASSUME NEW A, NEW names, "appl" \notin names
  PROVE  Closed(Lost(A), names)
<1> DEFINE K == Lost(A)
<1>1. ASSUME NEW ka \in K
      PROVE  /\ ka = <<ka[1], ka[2]>>
             /\ \A s \in names : /\ StringFails(ka[1], ka[2], s) \in BOOLEAN
                                 /\ <<StringStep(ka[1], s), ka[2]>> \in K
             /\ \A v \in Nat : <<UIntStep(ka[1], ka[2]), UIntAccount(ka[1], ka[2], v)>> \in K
             /\ <<FinishStep(ka[1]), FinishAccount(ka[1], ka[2])>> \in K
  <2> DEFINE p == ka[1]
             b == ka[2]
             R == Reached(b)
  <2>1. ka = <<p, b>> /\ p \in LostSteps /\ b \in Details /\ OwnIds(b, A) /\ Grows(b, b)
        /\ (p \in AppSteps => b.app_idx < AppsMaxCount)
    BY GrowsReflexive DEF Lost
  <2>2. ka \in R
    BY <2>1 DEF Reached, LostSteps, AppSteps, OtherSteps
  <2>3. Closed(R, names)
    BY <2>1, ReachedClosed
  <2>4. /\ \A s \in names : StringFails(p, b, s) \in BOOLEAN /\ <<StringStep(p, s), b>> \in R
        /\ \A v \in Nat : <<UIntStep(p, b), UIntAccount(p, b, v)>> \in R
        /\ <<FinishStep(p), FinishAccount(p, b)>> \in R
    <3> HIDE DEF R
    <3> QED BY <2>2, <2>3 DEF Closed
  <2> HIDE DEF p, b, K
  <2>5. ASSUME NEW next \in LostSteps, NEW c \in Details, OwnIds(c, A), <<next, c>> \in R
        PROVE  <<next, c>> \in K
    BY <2>5 DEF K, Lost, Reached
  <2>6. ASSUME NEW s \in names PROVE StringStep(p, s) \in LostSteps
    <3>1. s # "appl"
      OBVIOUS
    <3> QED BY <2>1, <3>1 DEF StringStep, IsKey, StepOfKey, LostSteps
  <2>7. UIntStep(p, b) \in LostSteps /\ FinishStep(p) \in LostSteps
    BY <2>1 DEF UIntStep, FinishStep, StepOfUInt, LostSteps
  <2>8. FinishAccount(p, b) = b
    BY <2>1 DEF FinishAccount, LostSteps
  <2>9. ASSUME NEW v \in Nat PROVE UIntAccount(p, b, v) \in Details /\ OwnIds(UIntAccount(p, b, v), A)
    <3>1. CASE NoRoomFor(p, b) \/ p # "ALGO"
      <4>1. UIntAccount(p, b, v) = b
        BY <2>1, <3>1 DEF UIntAccount, LostSteps
      <4> QED BY <2>1, <4>1
    <3>2. CASE ~NoRoomFor(p, b) /\ p = "ALGO"
      <4> DEFINE c == WithAmount(b, AsInt32(v))
      <4>1. UIntAccount(p, b, v) = c
        BY <3>2 DEF UIntAccount
      <4>2. c \in Details /\ c.apps = b.apps /\ c.app_idx = b.app_idx
        BY <2>1, AmountFits, AccountChanges
      <4> HIDE DEF c
      <4> QED BY <2>1, <4>1, <4>2 DEF OwnIds
    <3> QED BY <3>1, <3>2
  <2> HIDE DEF R
  <2>10. ASSUME NEW s \in names PROVE StringFails(p, b, s) \in BOOLEAN /\ <<StringStep(p, s), b>> \in K
    BY <2>1, <2>4, <2>5, <2>6
  <2>11. ASSUME NEW v \in Nat PROVE <<UIntStep(p, b), UIntAccount(p, b, v)>> \in K
    BY <2>4, <2>5, <2>7, <2>9
  <2>12. <<FinishStep(p), FinishAccount(p, b)>> \in K
    BY <2>1, <2>4, <2>5, <2>7, <2>8
  <2> QED BY <2>1, <2>10, <2>11, <2>12 DEF p, b
<1> HIDE DEF K
<1>2. Closed(K, names)
  BY <1>1 DEF Closed
<1> QED
  BY <1>2 DEF K

(* The three together are closed.                                          *)
LEMMA SafeClosed ==
  ASSUME NEW A, NEW names
  PROVE  Closed(Safe(A, names), names)
<1>1. ASSUME NEW K, NEW L, Closed(K, names), Closed(L, names) PROVE Closed(K \cup L, names)
  BY <1>1 DEF Closed
<1>2. Closed(Over \cup Full(A), names)
  BY <1>1, OverClosed, FullClosed
<1>3. CASE "appl" \in names
  <2>1. Safe(A, names) = Over \cup Full(A)
    BY <1>3 DEF Safe
  <2> QED BY <1>2, <2>1
<1>4. CASE "appl" \notin names
  <2>1. Safe(A, names) = (Over \cup Full(A)) \cup Lost(A)
    BY <1>4 DEF Safe
  <2>2. Closed(Lost(A), names)
    BY <1>4, LostClosed
  <2> QED BY <1>1, <1>2, <2>1, <2>2
<1> QED
  BY <1>3, <1>4

-----------------------------------------------------------------------------
(* Reading an application adds its own id or loses track.                  *)
Inside(A) ==
  {c \in Details : c.app_idx < AppsMaxCount /\ \A j \in 0..c.app_idx : c.apps[j].app_id \in A}

(* The changes that the reading of an application makes to details whose   *)
(* ids are its own.                                                        *)
LEMMA InsideChanges ==
  ASSUME NEW A
  PROVE  /\ \A b \in Details, app \in A \cap Nat :
              b.app_idx < AppsMaxCount /\ OwnIds(b, A) => WithId(b, app) \in Inside(A)
         /\ \A c \in Inside(A) : /\ OneMore(c) \in Inside(A) /\ CountOf(c) \in Nat
                                 /\ CountOf(OneMore(c)) = CountOf(c) + 1
                                 /\ NextApp(c) \in Details /\ OwnIds(NextApp(c), A) /\ OwnIds(c, A)
<1>1. ASSUME NEW b \in Details, NEW app \in A \cap Nat, b.app_idx < AppsMaxCount, OwnIds(b, A)
      PROVE  WithId(b, app) \in Inside(A)
  <2> DEFINE c == WithId(b, app)
             k == b.app_idx
  <2>1. c \in Details
    BY <1>1, AccountChanges
  <2>2. k \in AppIdxs /\ k \in Nat /\ b.apps \in [AppIdxs -> [app_id : Nat, kv_count : Nat]]
    BY <1>1, AccountParserAssumption DEF Details, AppIdxs
  <2>3. c.app_idx = k /\ c.apps = [b.apps EXCEPT ![k] = [app_id |-> app, kv_count |-> b.apps[k].kv_count]]
    BY DEF WithId, Details
  <2> HIDE DEF c, k
  <2>4. ASSUME NEW j \in 0..k PROVE c.apps[j].app_id \in A
    <3>1. CASE j = k
      BY <2>2, <2>3, <3>1
    <3>2. CASE j # k
      <4>1. j \in 0..(k - 1) /\ c.apps[j] = b.apps[j]
        BY <2>2, <2>3, <3>2
      <4> QED BY <1>1, <4>1 DEF OwnIds, k
    <3> QED BY <3>1, <3>2
  <2> QED BY <1>1, <2>1, <2>3, <2>4 DEF Inside, c, k
<1>2. ASSUME NEW c \in Inside(A)
      PROVE  /\ OneMore(c) \in Inside(A) /\ CountOf(c) \in Nat /\ CountOf(OneMore(c)) = CountOf(c) + 1
             /\ NextApp(c) \in Details /\ OwnIds(NextApp(c), A) /\ OwnIds(c, A)
  <2> DEFINE k == c.app_idx
             d == OneMore(c)
             e == NextApp(c)
  <2>1. /\ c \in Details /\ k < AppsMaxCount /\ k \in Nat /\ k \in AppIdxs
        /\ \A j \in 0..k : c.apps[j].app_id \in A
        /\ c.apps \in [AppIdxs -> [app_id : Nat, kv_count : Nat]]
    BY AccountParserAssumption DEF Inside, Details, AppIdxs
  <2>2. d \in Details /\ e \in Details
    BY <2>1, AccountChanges
  <2>3. d.app_idx = k /\ d.apps = [c.apps EXCEPT ![k].kv_count = @ + 1]
    BY DEF OneMore, Inside, Details
  <2>4. e.app_idx = k + 1 /\ e.apps = c.apps
    BY DEF NextApp, Inside, Details
  <2>5. CountOf(c) \in Nat
    BY <2>1 DEF CountOf
  <2>6. CountOf(d) = CountOf(c) + 1
    <3> HIDE DEF d
    <3> QED BY <2>1, <2>3 DEF CountOf
  <2>7. \A j \in 0..k : d.apps[j].app_id = c.apps[j].app_id
    <3> SUFFICES ASSUME NEW j \in 0..k PROVE d.apps[j].app_id = c.apps[j].app_id
      OBVIOUS
    <3> HIDE DEF d, k
    <3>1. j \in AppIdxs
      BY <2>1, AccountParserAssumption DEF AppIdxs
    <3> QED BY <2>1, <2>3, <3>1
  <2>8. d \in Inside(A)
    <3> HIDE DEF d, k
    <3> QED BY <2>1, <2>2, <2>3, <2>7 DEF Inside
  <2>9. OwnIds(e, A)
    <3>1. \A j \in 0..(e.app_idx - 1) : j \in 0..k
      BY <2>1, <2>4
    <3> HIDE DEF e, k
    <3> QED BY <2>1, <2>4, <3>1 DEF OwnIds
  <2>10. OwnIds(c, A)
    BY <2>1 DEF OwnIds
  <2> QED BY <2>2, <2>5, <2>6, <2>8, <2>9, <2>10
<1> QED
  BY <1>1, <1>2

AfterVariables(r, n, A, names) ==
  {LeaveMaps(At("APP_KV", Append(r, n), c)) : c \in Inside(A)} \cup StatesOf(Safe(A, names))

(* After a variable the parser is where the next one is read, or in a      *)
(* state that stores no id any more.                                       *)
LEMMA VariableRead ==
  ASSUME NEW q \in Seq(Int), NEW m \in Int, NEW n \in Int, n # 0, n # 1, NEW A,
         NEW v \in Variables, NEW names, KeysOfApps \subseteq names, v.name \in names,
         v.type = "slice" => "appl" \notin names,
         NEW st \in AfterVariables(Append(q, m), n, A, names)
  PROVE  Parse!Fold(st, VariableTokens(v)) \in AfterVariables(Append(q, m), n - 2, A, names)
<1> DEFINE S == Safe(A, names)
           r == Append(q, m)
<1>1. Closed(S, names)
  BY SafeClosed
<1>2. VariableTokens(v) \in Seq(TokensWith(names))
  BY VariableTyped
<1>3. r \in Seq(Int)
  OBVIOUS
<1>4. CASE st \in StatesOf(S)
  <2> HIDE DEF S
  <2>1. Parse!Fold(st, VariableTokens(v)) \in StatesOf(S)
    BY <1>1, <1>2, <1>4, ReadKeeps
  <2> QED BY <2>1 DEF AfterVariables, S
<1>5. CASE st \notin StatesOf(S)
  <2>1. PICK c \in Inside(A) : st = LeaveMaps(At("APP_KV", Append(r, n), c))
    BY <1>5 DEF AfterVariables
  <2>2. st = At("APP_KV", Append(r, n), c)
    <3> HIDE DEF r
    <3>1. LeaveMaps(At("APP_KV", Append(r, n), c)) = At("APP_KV", Append(r, n), c)
      BY <1>3, StayIn
    <3> QED BY <2>1, <3>1
  <2>3. /\ OneMore(c) \in Inside(A) /\ CountOf(c) \in Nat /\ CountOf(OneMore(c)) = CountOf(c) + 1
        /\ OwnIds(c, A)
    BY InsideChanges
  <2>4. c \in Details /\ c.app_idx < AppsMaxCount /\ OneMore(c) \in Details /\ OneMore(c).app_idx < AppsMaxCount
        /\ c.app_idx \in AppIdxs
    <3> DEFINE e == OneMore(c)
    <3>1. e \in Inside(A)
      BY <2>3
    <3> HIDE DEF e
    <3>2. e \in Details /\ e.app_idx < AppsMaxCount /\ c \in Details /\ c.app_idx < AppsMaxCount
      BY <3>1 DEF Inside
    <3>3. c.app_idx \in AppIdxs
      BY <3>2, AccountParserAssumption DEF Details, AppIdxs
    <3> QED BY <3>2, <3>3 DEF e
  <2>5. CASE CountOf(c) >= AppsKvMaxCount
    <3> DEFINE e == OneMore(c)
    <3>1. Overflowed(e)
      <4>1. CountOf(e) > AppsKvMaxCount
        BY <2>3, <2>5, AccountParserAssumption
      <4>2. e.app_idx \in DOMAIN e.apps
        BY <2>4, AccountParserAssumption DEF Details, AppIdxs
      <4> HIDE DEF e
      <4> QED BY <4>1, <4>2 DEF Overflowed, CountOf
    <3>2. "APP_KV" \in AppSteps \cup OtherSteps
      BY DEF AppSteps
    <3> HIDE DEF e
    <3>3. <<"APP_KV", e>> \in S
      BY <2>4, <3>1, <3>2 DEF Safe, Over, Typed, e
    <3> HIDE DEF S
    <3>4. Parse!Fold(st, VariableTokens(v)) \in StatesOf(S)
      BY <1>1, <2>2, <2>3, <2>5, <3>3, VariableTooMany DEF e
    <3> QED BY <3>4 DEF AfterVariables, S
  <2>6. CASE CountOf(c) < AppsKvMaxCount /\ v.type = "int"
    <3>1. VariableTokens(v) = IntTokens(v)
      BY <2>6 DEF VariableTokens, IntTokens
    <3> HIDE DEF r
    <3>2. Parse!Fold(At("APP_KV", Append(r, n), c), IntTokens(v)) = LeaveMaps(At("APP_KV", Append(r, n - 2), OneMore(c)))
      BY <1>3, <2>3, <2>6, IntRead
    <3>3. LeaveMaps(At("APP_KV", Append(r, n - 2), OneMore(c))) \in AfterVariables(r, n - 2, A, names)
      BY <2>3 DEF AfterVariables
    <3> QED BY <2>2, <3>1, <3>2, <3>3 DEF r
  <2>7. CASE CountOf(c) < AppsKvMaxCount /\ v.type # "int"
    <3>1. VariableTokens(v) = SliceTokens(v) /\ "appl" \notin names
      BY <2>7 DEF VariableTokens, SliceTokens, Variables
    <3>2. <<"APP_KV_SLICE", c>> \in S
      BY <2>3, <2>4, <3>1 DEF Safe, Lost, LostSteps
    <3> HIDE DEF S, r
    <3>3. Parse!Fold(At("APP_KV", Append(r, n), c), SliceTokens(v)) \in StatesOf(S)
      BY <1>1, <1>3, <2>3, <2>7, <3>2, SliceRead
    <3> QED BY <2>2, <3>1, <3>3 DEF AfterVariables, S, r
  <2> QED BY <2>3, <2>5, <2>6, <2>7, AccountParserAssumption
<1> QED
  BY <1>4, <1>5

Between(q, n, A, names) ==
  {LeaveMaps(At("APPL", Append(q, n), b)) : b \in {x \in Details : OwnIds(x, A)}}
    \cup StatesOf(Safe(A, names))

(* After an application the parser is where the next one is read, or in a  *)
(* state that stores no id any more: the induction over its variables.     *)
LEMMA AppRead ==
  ASSUME NEW q \in Seq(Int), NEW n \in Int, n # 0, n # 1, NEW A, NEW app \in A \cap Nat,
         NEW variables \in Seq(Variables), NEW names, KeysOfApps \subseteq names,
         NamesIn(variables, names), HasSlice(variables) => "appl" \notin names,
         NEW st \in Between(q, n, A, names)
  PROVE  Parse!Fold(st, AppTokens(app, variables)) \in Between(q, n - 2, A, names)
<1> DEFINE S == Safe(A, names)
           T == TokensWith(names)
           l == Len(variables)
           h == AppHead(app, l)
           ss == VariablesTokens(variables)
<1>1. Closed(S, names)
  BY SafeClosed
<1>2. /\ AppTokens(app, variables) = h \o FlattenSeq(ss) /\ h \in Seq(T)
      /\ ss \in Seq(Seq(T)) /\ FlattenSeq(ss) \in Seq(T) /\ AppTokens(app, variables) \in Seq(T)
  BY AppTyped
<1>3. l \in Nat /\ Len(ss) = l /\ DOMAIN variables = 1..l
      /\ \A i \in 1..l : variables[i] \in Variables /\ ss[i] = VariableTokens(variables[i])
  BY DEF VariablesTokens
<1>4. CASE st \in StatesOf(S)
  <2> HIDE DEF S
  <2>1. Parse!Fold(st, AppTokens(app, variables)) \in StatesOf(S)
    BY <1>1, <1>2, <1>4, ReadKeeps
  <2> QED BY <2>1 DEF Between, S
<1>5. CASE st \notin StatesOf(S)
  <2>1. PICK b \in Details : OwnIds(b, A) /\ st = LeaveMaps(At("APPL", Append(q, n), b))
    BY <1>5 DEF Between
  <2>2. st = At("APPL", Append(q, n), b)
    BY <2>1, StayIn
  <2>3. b.app_idx < AppsMaxCount /\ b.app_idx \in Nat
    <3>1. b.app_idx \in 0..AppsMaxCount
      BY DEF Details
    <3>2. CASE b.app_idx = AppsMaxCount
      <4> DEFINE o == Append(q, n)
      <4>1. o \in Seq(Int)
        OBVIOUS
      <4>2. "APPL" \in AppSteps \cup OtherSteps /\ "APPL" \notin AppSteps
        BY DEF AppSteps, OtherSteps
      <4>3. <<"APPL", b>> \in S
        BY <2>1, <3>2, <4>2 DEF Safe, Full, Typed
      <4> HIDE DEF o, S
      <4>4. At("APPL", o, b) \in StatesOf(S)
        BY <4>1, <4>3, InStatesOf
      <4> QED BY <1>5, <2>2, <4>4 DEF o
    <3> QED BY <3>1, <3>2, AccountParserAssumption
  <2> DEFINE c == WithId(b, app)
             r == Append(q, n - 1)
             r1 == Append(r, 1)
             I == [i \in 0..l |-> AfterVariables(r1, 2 * (l - i), A, names)]
             st8 == LeaveMaps(At("APP_KV", Append(r1, 2 * l), c))
  <2>4. c \in Inside(A)
    BY <2>1, <2>3, InsideChanges
  <2>5. Parse!Fold(st, h) = st8
    BY <2>2, <2>3, HeadRead
  <2>6. r \in Seq(Int) /\ r1 \in Seq(Int)
    OBVIOUS
  <2> HIDE DEF S, T, l, h, ss, c, r
  <2>7. st8 \in I[0]
    <3>1. 0 \in 0..l /\ 2 * (l - 0) = 2 * l
      BY <1>3
    <3>2. st8 \in AfterVariables(r1, 2 * l, A, names)
      <4> HIDE DEF r1
      <4> QED BY <2>4 DEF AfterVariables
    <3> QED BY <3>1, <3>2
  <2>8. ASSUME NEW k \in 1..l, NEW x \in I[k - 1] PROVE Parse!Fold(x, ss[k]) \in I[k]
    <3> DEFINE v == variables[k]
               n2 == 2 * (l - (k - 1))
    <3>1. k \in 0..l /\ k - 1 \in 0..l /\ k \in Int /\ l \in Int
      BY <1>3
    <3>2. n2 \in Int /\ n2 # 0 /\ n2 # 1 /\ n2 - 2 = 2 * (l - k)
      BY <1>3, <3>1
    <3>3. v \in Variables /\ v.name \in names /\ (v.type = "slice" => "appl" \notin names)
      BY <1>3 DEF NamesIn, HasSlice
    <3>4. x \in AfterVariables(Append(r, 1), n2, A, names)
      BY <3>1
    <3> HIDE DEF v, n2
    <3>5. Parse!Fold(x, VariableTokens(v)) \in AfterVariables(Append(r, 1), n2 - 2, A, names)
      BY <2>6, <3>2, <3>3, <3>4, VariableRead
    <3> QED BY <1>3, <3>1, <3>2, <3>5 DEF v
  <2>9. Parse!Fold(st8, FlattenSeq(ss)) \in I[l]
    <3> HIDE DEF I, st8
    <3>1. Parse!Fold(st8, Parse!FlattenSeq(ss)) \in I[Len(ss)]
      BY <1>2, <1>3, <2>7, <2>8, Parse!FoldFlatten
    <3> QED BY <1>3, <3>1, Flattened
  <2>10. I[l] \subseteq Between(q, n - 2, A, names)
    <3>1. l \in 0..l /\ 2 * (l - l) = 0
      BY <1>3
    <3>2. I[l] = AfterVariables(r1, 0, A, names)
      BY <3>1
    <3> HIDE DEF I
    <3>3. ASSUME NEW e \in Inside(A)
          PROVE  LeaveMaps(At("APP_KV", Append(r1, 0), e)) \in Between(q, n - 2, A, names)
      <4> DEFINE k == n - 1
      <4>1. k \in Int /\ k - 1 = n - 2
        OBVIOUS
      <4> HIDE DEF k
      <4>2. LeaveMaps(At("APP_KV", Append(Append(Append(q, k), 1), 0), e)) = LeaveMaps(At("APPL", Append(q, k - 1), NextApp(e)))
        BY <4>1, AppEnd
      <4>3. NextApp(e) \in Details /\ OwnIds(NextApp(e), A)
        BY InsideChanges
      <4>4. LeaveMaps(At("APPL", Append(q, n - 2), NextApp(e))) \in Between(q, n - 2, A, names)
        BY <4>3 DEF Between
      <4> QED BY <4>1, <4>2, <4>4 DEF r, k
    <3> QED BY <3>2, <3>3 DEF AfterVariables, Between
  <2>11. Parse!Fold(st, AppTokens(app, variables)) = Parse!Fold(st8, FlattenSeq(ss))
    <3> DEFINE w == FlattenSeq(ss)
    <3>1. w \in Seq(T)
      BY <1>2
    <3> HIDE DEF w
    <3>2. Parse!Fold(st, h \o w) = Parse!Fold(Parse!Fold(st, h), w)
      BY <1>2, <3>1, Parse!FoldConcat
    <3> QED BY <1>2, <2>5, <3>2 DEF w
  <2> QED BY <2>9, <2>10, <2>11
<1> QED
  BY <1>4, <1>5
-----------------------------------------------------------------------------
(* Two elements are two steps.                                             *)
LEMMA TwoRead ==
  ASSUME NEW st, NEW e, NEW f
  PROVE  Parse!Fold(st, <<e, f>>) = parse_element(parse_element(st, e), f)
<1>1. <<e>> \in Seq({e, f}) /\ f \in {e, f} /\ <<e, f>> = Append(<<e>>, f)
  OBVIOUS
<1>2. Parse!Fold(st, Append(<<e>>, f)) = parse_element(Parse!Fold(st, <<e>>), f)
  BY <1>1, Parse!FoldAppend, ZenonT(60)
<1>3. Parse!Fold(st, <<e>>) = parse_element(st, e)
  BY Parse!FoldOne
<1> QED
  BY <1>1, <1>2, <1>3

(* The amount, if the answer has one, is read.                             *)
WithAnswered(a, d) == IF d.algo # 0 THEN WithAmount(a, AsInt32(d.algo)) ELSE a

FieldsAfterAlgo(d) == FieldCount(d) - (IF d.algo # 0 THEN 1 ELSE 0)

(* What precedes the applications stores the amount and leaves them alone. *)
LEMMA AlgoRead ==
  ASSUME NEW d, IsAnswer(d), NEW a \in Details
  PROVE  /\ AfterAlgo(d, a) = At("ROOT", Append(<<>>, 2 * FieldsAfterAlgo(d)), WithAnswered(a, d))
         /\ WithAnswered(a, d) \in Details
         /\ WithAnswered(a, d).apps = a.apps /\ WithAnswered(a, d).app_idx = a.app_idx
<1> DEFINE q == <<>>
           n == 2 * FieldCount(d)
           b == WithAmount(a, AsInt32(d.algo))
<1>1. q \in Seq(Int) /\ d.algo \in Nat
  BY DEF IsAnswer
<1>2. FieldCount(d) \in Nat /\ n \in Int /\ n # 1 /\ n - 1 # 1 /\ n - 1 \in Int
  <2> DEFINE x == FieldCount(d)
  <2>1. x \in Nat /\ x >= 2
    BY DEF FieldCount
  <2> HIDE DEF x
  <2>2. x \in Int /\ 2 * x \in Int /\ 2 * x # 1 /\ 2 * x - 1 # 1 /\ 2 * x - 1 \in Int
    BY <2>1
  <2> QED BY <2>1, <2>2 DEF x
<1>3. b \in Details /\ b.apps = a.apps /\ b.app_idx = a.app_idx
  BY <1>1, AmountFits, AccountChanges
<1>4. CASE d.algo = 0
  <2>1. AlgoTokens(d) = <<>> /\ FieldsAfterAlgo(d) = FieldCount(d) /\ WithAnswered(a, d) = a
    BY <1>2, <1>4 DEF AlgoTokens, FieldsAfterAlgo, WithAnswered
  <2> DEFINE st == At("ROOT", Append(<<>>, 2 * FieldCount(d)), a)
  <2>2. AfterAlgo(d, a) = Parse!Fold(st, <<>>)
    BY <2>1 DEF AfterAlgo
  <2> HIDE DEF st
  <2>3. Parse!Fold(st, <<>>) = st
    BY Parse!FoldEmpty
  <2> QED BY <2>1, <2>2, <2>3 DEF st
<1>5. CASE d.algo # 0
  <2>1. /\ AlgoTokens(d) = <<Str("algo"), UInt(d.algo)>>
        /\ 2 * FieldsAfterAlgo(d) = (n - 1) - 1 /\ WithAnswered(a, d) = b
    BY <1>2, <1>5 DEF AlgoTokens, FieldsAfterAlgo, WithAnswered
  <2> HIDE DEF q, n
  <2>2. parse_element(At("ROOT", Append(q, n), a), Str("algo")) = At("ALGO", Append(q, n - 1), a)
    BY <1>1, <1>2, KeysUnderstood, KeyOn
  <2>3. ~NoRoomFor("ALGO", a) /\ UIntStep("ALGO", a) = "ROOT"
    BY DEF NoRoomFor, UIntStep, StepOfUInt
  <2>4. UIntAccount("ALGO", a, d.algo) = b
    BY <2>3 DEF UIntAccount
  <2> HIDE DEF b
  <2> DEFINE k == n - 1
             v == d.algo
  <2>5. k \in Int /\ k # 1 /\ k = n - 1
    BY <1>2
  <2> HIDE DEF k, v
  <2>6. parse_element(At("ALGO", Append(q, k), a), UInt(v)) =
          At(UIntStep("ALGO", a), Append(q, k - 1), UIntAccount("ALGO", a, v))
    <3>1. ~NoRoomFor("ALGO", a) /\ q \in Seq(Int) /\ k \in Int /\ k # 1
      BY <1>1, <2>3, <2>5
    <3> DEFINE p == "ALGO"
    <3>2. ~NoRoomFor(p, a)
      BY <3>1
    <3> HIDE DEF p
    <3>3. k # 1 => parse_element(At(p, Append(q, k), a), UInt(v)) = At(UIntStep(p, a), Append(q, k - 1), UIntAccount(p, a, v))
      BY <3>1, <3>2, UIntOn
    <3> QED BY <3>1, <3>3 DEF p
  <2>7. parse_element(parse_element(At("ROOT", Append(q, n), a), Str("algo")), UInt(v)) = At("ROOT", Append(q, k - 1), b)
    BY <2>2, <2>3, <2>4, <2>5, <2>6 DEF v
  <2>8. AfterAlgo(d, a) = Parse!Fold(At("ROOT", Append(q, n), a), <<Str("algo"), UInt(v)>>)
    BY <2>1 DEF AfterAlgo, q, n, v
  <2>9. AfterAlgo(d, a) = At("ROOT", Append(q, k - 1), b)
    BY <2>7, <2>8, TwoRead
  <2> QED BY <1>3, <2>1, <2>5, <2>9 DEF q
<1> QED
  BY <1>4, <1>5

(* When no map is left nothing is read any more.                           *)
LEMMA NothingRead ==
  ASSUME NEW step, NEW a, NEW T, NEW s \in Seq(T)
  PROVE  Parse!Fold(At(step, <<>>, a), s) = At(step, <<>>, a)
<1> DEFINE st == At(step, <<>>, a)
<1>1. \A e \in T : parse_element(st, e) = st
  BY ParseNothing
<1> HIDE DEF st
<1> DEFINE I == {st}
<1>2. \A x \in I, e \in T : parse_element(x, e) \in I
  BY <1>1
<1>3. st \in I
  OBVIOUS
<1> HIDE DEF I
<1>4. Parse!Fold(st, s) \in I
  BY <1>2, <1>3, Parse!FoldInvariant
<1> QED
  BY <1>4 DEF I, st

(* A field that the parser does not know ends the map of the account.      *)
LEMMA AssetsRead ==
  ASSUME NEW d, IsAnswer(d), NEW a \in Details
  PROVE  /\ ~d.assets => AfterAssets(d, a) = AfterAlgo(d, a)
         /\ d.assets => AfterLast(d, a) = At("ROOT", <<>>, WithAnswered(a, d))
<1> DEFINE b == WithAnswered(a, d)
           n == 2 * FieldsAfterAlgo(d)
           q == <<>>
           st == At("ROOT", Append(<<>>, n), b)
           out == At("ROOT", <<>>, b)
<1>1. AfterAlgo(d, a) = st
  BY AlgoRead
<1>2. n \in Int /\ q \in Seq(Int)
  BY BodyTyped DEF FieldsAfterAlgo
<1>3. ASSUME ~d.assets PROVE AfterAssets(d, a) = AfterAlgo(d, a)
  <2>1. AssetTokens(d) = <<>>
    BY <1>3 DEF AssetTokens
  <2> HIDE DEF st
  <2>2. Parse!Fold(st, <<>>) = st
    BY Parse!FoldEmpty
  <2> QED BY <1>1, <2>1, <2>2 DEF AfterAssets
<1>4. ASSUME d.assets PROVE AfterLast(d, a) = out
  <2>1. AssetTokens(d) = <<Str("apar"), MapOf(0)>>
    BY <1>4 DEF AssetTokens
  <2>2. ~IsKey("ROOT", "apar")
    BY DEF IsKey, StepOfKey
  <2>3. StringStep("ROOT", "apar") = "ROOT" /\ StringFails("ROOT", b, "apar") = TRUE
    BY <2>2 DEF StringStep, StringFails, StringErr
  <2> DEFINE fails == StringFails("ROOT", b, "apar")
  <2>4. fails \in BOOLEAN /\ (IF fails THEN 0 ELSE n - 1) = 0
    BY <2>3
  <2> HIDE DEF b, n, q
  <2>5. parse_element(At("ROOT", Append(q, n), b), Str("apar")) =
          LeaveMaps(At(StringStep("ROOT", "apar"), Append(q, IF fails THEN 0 ELSE n - 1), b))
    BY <1>2, <2>4, ParseStr
  <2>6. LeaveMaps(At("ROOT", Append(<<>>, 0), b)) = At(FinishStep("ROOT"), <<>>, FinishAccount("ROOT", b))
    BY <1>2, LeaveInner DEF q
  <2>7. FinishStep("ROOT") = "ROOT" /\ FinishAccount("ROOT", b) = b
    BY DEF FinishStep, FinishAccount
  <2>8. parse_element(st, Str("apar")) = out
    BY <2>3, <2>4, <2>5, <2>6, <2>7 DEF q
  <2>9. parse_element(out, MapOf(0)) = out
    BY ParseNothing
  <2> HIDE DEF st
  <2>10. AfterAssets(d, a) = out
    BY <1>1, <2>1, <2>8, <2>9, TwoRead DEF AfterAssets
  <2>11. ListTokens(d) \in Seq(TokensWith(Names)) /\ LastTokens \in Seq(TokensWith(Names))
    BY BodyTyped
  <2>12. Parse!Fold(out, ListTokens(d)) = out /\ Parse!Fold(out, LastTokens) = out
    BY <2>11, NothingRead
  <2> HIDE DEF out
  <2> QED BY <2>10, <2>12 DEF AfterList, AfterLast
<1> QED
  BY <1>3, <1>4

-----------------------------------------------------------------------------
(* What an answer makes of an account with own applications only.          *)
NamesOf(d) == IF \E app \in DOMAIN d.apps : HasSlice(d.apps[app]) THEN Names \ {"appl"} ELSE Names

(* In an answer that does not mislead, no name of a variable or key leads  *)
(* back to the applications.                                               *)
LEMMA NamesInAnswer ==
  ASSUME NEW d, IsAnswer(d), ~Misleads(d)
  PROVE  /\ KeysOfApps \subseteq NamesOf(d)
         /\ \A app \in DOMAIN d.apps : NamesIn(d.apps[app], NamesOf(d))
         /\ \A app \in DOMAIN d.apps : HasSlice(d.apps[app]) => "appl" \notin NamesOf(d)
<1>1. KeysOfApps \subseteq NamesOf(d)
  BY DEF NamesOf, Names, KeysOfApps
<1>2. ASSUME NEW app \in DOMAIN d.apps
      PROVE  NamesIn(d.apps[app], NamesOf(d)) /\ (HasSlice(d.apps[app]) => "appl" \notin NamesOf(d))
  <2> DEFINE vs == d.apps[app]
  <2>1. HasSlice(vs) => "appl" \notin NamesOf(d)
    BY DEF NamesOf
  <2>2. vs \in Seq(Variables)
    BY DEF IsAnswer, Variables
  <2>3. ASSUME NEW i \in DOMAIN vs PROVE vs[i].name \in NamesOf(d)
    <3>1. "appl" \notin NamesOf(d) => vs[i].name # "appl"
      BY DEF NamesOf, Names, KeysOfAccount, Misleads
    <3> HIDE DEF vs
    <3>2. vs[i] \in Variables
      BY <2>2
    <3>3. vs[i].name \in VariableNames
      BY <3>2 DEF Variables
    <3> QED BY <3>1, <3>3 DEF NamesOf, Names, KeysOfAccount
  <2> QED BY <2>1, <2>3 DEF NamesIn
<1> QED
  BY <1>1, <1>2

(* After the list of applications the ids stay what they are: the          *)
(* induction over the applications.                                        *)
LEMMA ListRead ==
  ASSUME NEW d, IsAnswer(d), ~Misleads(d), NEW A, DOMAIN d.apps \subseteq A,
         NEW N \in Int, N - 2 # 0, N - 1 # 0, N # 1, NEW b \in Details, OwnIds(b, A)
  PROVE  Parse!Fold(At("ROOT", Append(<<>>, N), b), ListTokens(d)) \in StatesOf(Over \cup Full(A) \cup Lost(A))
<1> DEFINE K == Over \cup Full(A) \cup Lost(A)
           q == <<>>
           names == NamesOf(d)
           T == TokensWith(names)
           n == AppCount(d)
           ss == AllAppTokens(d)
           st0 == At("ROOT", Append(q, N), b)
<1>0. /\ KeysOfApps \subseteq names
      /\ \A app \in DOMAIN d.apps : NamesIn(d.apps[app], names)
      /\ \A app \in DOMAIN d.apps : HasSlice(d.apps[app]) => "appl" \notin names
  BY NamesInAnswer
<1>1. q \in Seq(Int) /\ n \in Nat
  <2> HIDE DEF names
  <2> QED BY <1>0, AnswerApps
<1>2. /\ \A i \in 1..n : IdsOf(d)[i] \in DOMAIN d.apps /\ IdsOf(d)[i] \in Nat /\ d.apps[IdsOf(d)[i]] \in Seq(Variables)
      /\ ss \in Seq(Seq(T)) /\ Len(ss) = n /\ AppsTokens(d.apps) = FlattenSeq(ss) /\ AppsTokens(d.apps) \in Seq(T)
  <2> HIDE DEF names
  <2> QED BY <1>0, AnswerApps
<1>3. <<"ROOT", b>> \in Lost(A)
  BY DEF Lost, LostSteps, AppSteps
<1>4. CASE DOMAIN d.apps = {}
  <2> DEFINE o == Append(q, N)
  <2>1. ListTokens(d) = <<>> /\ o \in Seq(Int) /\ <<"ROOT", b>> \in K
    BY <1>1, <1>3, <1>4 DEF ListTokens
  <2> HIDE DEF o, K, st0
  <2>2. At("ROOT", o, b) \in StatesOf(K)
    BY <2>1, InStatesOf
  <2>3. Parse!Fold(st0, <<>>) = st0
    BY Parse!FoldEmpty
  <2> QED BY <2>1, <2>2, <2>3 DEF st0, K, o, q
<1>5. CASE DOMAIN d.apps # {}
  <2> DEFINE r == Append(q, N - 1)
             I == [i \in 0..n |-> Between(r, 2 * (n - i), A, names)]
             st1 == At("APPL", Append(r, 2 * n), b)
  <2>1. n # 0
    <3>1. IsFiniteSet(DOMAIN d.apps)
      BY DEF IsAnswer
    <3> QED BY <1>5, <3>1, FS_EmptySet DEF AppCount
  <2>2. ListTokens(d) = <<Str("appl"), MapOf(n)>> \o AppsTokens(d.apps)
    BY <1>5 DEF ListTokens
  <2>3. parse_element(st0, Str("appl")) = At("APPL", r, b)
    <3> HIDE DEF q
    <3> QED BY <1>1, KeysUnderstood, KeyOn
  <2>4. parse_element(At("APPL", r, b), MapOf(n)) = st1
    <3> DEFINE k == N - 1
    <3>1. k \in Int
      OBVIOUS
    <3> HIDE DEF k, q, n
    <3>2. parse_element(At("APPL", Append(q, k), b), MapOf(n)) = At("APPL", Append(Append(q, k), 2 * n), b)
      BY <1>1, <2>1, <3>1, MapOn
    <3> QED BY <3>2 DEF k
  <2>5. r \in Seq(Int)
    OBVIOUS
  <2> HIDE DEF K, q, names, T, n, ss, st0, r
  <2>6. st1 \in I[0]
    <3>1. 0 \in 0..n /\ 2 * (n - 0) = 2 * n /\ 2 * n \in Int /\ 2 * n # 0
      BY <1>1, <2>1
    <3>2. LeaveMaps(At("APPL", Append(r, 2 * n), b)) = At("APPL", Append(r, 2 * n), b)
      BY <2>5, <3>1, StayIn
    <3>3. st1 \in Between(r, 2 * n, A, names)
      BY <3>2 DEF Between
    <3> HIDE DEF st1
    <3> QED BY <3>1, <3>3
  <2>7. ASSUME NEW k \in 1..n, NEW x \in I[k - 1] PROVE Parse!Fold(x, ss[k]) \in I[k]
    <3> DEFINE app == IdsOf(d)[k]
               vs == d.apps[app]
               n2 == 2 * (n - (k - 1))
    <3>1. k \in 0..n /\ k - 1 \in 0..n /\ k \in Int /\ n \in Int
      BY <1>1
    <3>2. n2 \in Int /\ n2 # 0 /\ n2 # 1 /\ n2 - 2 = 2 * (n - k)
      BY <1>1, <3>1
    <3>3. app \in A \cap Nat /\ vs \in Seq(Variables) /\ app \in DOMAIN d.apps
      BY <1>2
    <3>4. KeysOfApps \subseteq names /\ NamesIn(vs, names) /\ (HasSlice(vs) => "appl" \notin names)
      BY <1>0, <3>3
    <3>5. x \in Between(r, n2, A, names)
      BY <3>1
    <3>6. ss[k] = AppTokens(app, vs)
      BY DEF ss, AllAppTokens, n
    <3> HIDE DEF app, vs, n2
    <3>7. Parse!Fold(x, AppTokens(app, vs)) \in Between(r, n2 - 2, A, names)
      BY <2>5, <3>2, <3>3, <3>4, <3>5, AppRead
    <3> QED BY <3>1, <3>2, <3>6, <3>7
  <2>8. Parse!Fold(st1, FlattenSeq(ss)) \in I[n]
    <3> HIDE DEF I, st1
    <3>1. Parse!Fold(st1, Parse!FlattenSeq(ss)) \in I[Len(ss)]
      BY <1>2, <2>6, <2>7, Parse!FoldFlatten
    <3> QED BY <1>2, <3>1, Flattened
  <2>9. I[n] \subseteq StatesOf(K)
    <3>1. n \in 0..n /\ 2 * (n - n) = 0
      BY <1>1
    <3>2. I[n] = Between(r, 0, A, names)
      BY <3>1
    <3> HIDE DEF I
    <3>3. ASSUME NEW c \in Details, OwnIds(c, A)
          PROVE  LeaveMaps(At("APPL", Append(r, 0), c)) \in StatesOf(K)
      <4> DEFINE k == N - 1
                 o == Append(q, k - 1)
      <4>1. k \in Int /\ k - 1 # 0 /\ o \in Seq(Int)
        BY DEF q
      <4> HIDE DEF k
      <4>2. LeaveMaps(At("APPL", Append(Append(q, k), 0), c)) =
              LeaveMaps(At(FinishStep("APPL"), Append(q, k - 1), FinishAccount("APPL", c)))
        BY <1>1, <4>1, LeaveInner
      <4>3. FinishStep("APPL") = "ROOT" /\ FinishAccount("APPL", c) = c
        BY DEF FinishStep, FinishAccount
      <4>4. k - 1 \in Int
        BY <4>1
      <4>5. LeaveMaps(At("ROOT", Append(q, k - 1), c)) = At("ROOT", Append(q, k - 1), c)
        BY <1>1, <4>1, <4>4, StayIn
      <4>6. <<"ROOT", c>> \in K
        BY <3>3 DEF K, Lost, LostSteps, AppSteps
      <4> HIDE DEF o
      <4>7. At("ROOT", o, c) \in StatesOf(K)
        BY <4>1, <4>6, InStatesOf
      <4> QED BY <4>2, <4>3, <4>5, <4>7 DEF o, r, k
    <3>4. StatesOf(Safe(A, names)) \subseteq StatesOf(K)
      BY DEF StatesOf, Safe, K
    <3> QED BY <3>2, <3>3, <3>4 DEF Between
  <2>10. Parse!Fold(st0, ListTokens(d)) = Parse!Fold(st1, FlattenSeq(ss))
    <3> DEFINE h == <<Str("appl"), MapOf(n)>>
               w == AppsTokens(d.apps)
               U == TokensWith(Names)
    <3>1. h \in Seq(U)
      BY <1>1, OneToken DEF Names, KeysOfAccount
    <3>2. Parse!Fold(st0, h) = st1
      <4> HIDE DEF st1
      <4> QED BY <2>3, <2>4, TwoRead
    <3>3. w \in Seq(U)
      <4>1. T \subseteq U
        BY DEF T, U, TokensWith, names, NamesOf
      <4> HIDE DEF w, U
      <4> QED BY <1>2, <4>1 DEF w
    <3> HIDE DEF h, w, U
    <3>4. Parse!Fold(st0, h \o w) = Parse!Fold(Parse!Fold(st0, h), w)
      BY <3>1, <3>3, Parse!FoldConcat
    <3> QED BY <1>2, <2>2, <3>2, <3>4 DEF h, w
  <2> QED BY <2>8, <2>9, <2>10 DEF K, st0, q
<1> QED
  BY <1>4, <1>5

(* An answer that does not mislead the parser leaves an account with own   *)
(* applications, or with more variables than there are places for.         *)
LEMMA AnswerKeepsOwnIds ==
  ASSUME NEW d, IsAnswer(d), ~Misleads(d), NEW A, DOMAIN d.apps \subseteq A,
         NEW a \in Details, Overflowed(a) \/ OwnIds(a, A)
  PROVE  LET b == parser_account_mpack(Tokens(d), a) IN Overflowed(b) \/ OwnIds(b, A)
<1> DEFINE b == parser_account_mpack(Tokens(d), a)
           last == {"ebase", "tsch", "nui"}
           K == Over \cup Full(A) \cup Lost(A)
           c == WithAnswered(a, d)
<1>1. CASE Overflowed(a)
  <2>1. b \in Details /\ Grows(a, b)
    BY AnswerGrows
  <2> HIDE DEF b
  <2>2. \A j \in AppIdxs : a.apps[j].kv_count \in Nat /\ b.apps[j].kv_count \in Nat
                             /\ a.apps[j].kv_count <= b.apps[j].kv_count
    BY <2>1 DEF Grows, Details
  <2>3. DOMAIN a.apps = AppIdxs /\ DOMAIN b.apps = AppIdxs
    BY <2>1 DEF Details
  <2>4. Overflowed(b)
    BY <1>1, <2>2, <2>3, AccountParserAssumption DEF Overflowed
  <2> QED BY <2>4 DEF b
<1>2. CASE OwnIds(a, A)
  <2>1. AfterAlgo(d, a) = At("ROOT", Append(<<>>, 2 * FieldsAfterAlgo(d)), c) /\ c \in Details /\ OwnIds(c, A)
    BY <1>2, AlgoRead DEF OwnIds
  <2>2. Closed(K, last)
    <3>1. Safe(A, last) = K
      BY DEF Safe
    <3>2. Closed(Safe(A, last), last)
      BY SafeClosed
    <3> QED BY <3>1, <3>2
  <2>3. AfterLast(d, a) \in StatesOf(K)
    <3>1. CASE d.assets
      <4>1. AfterLast(d, a) = At("ROOT", <<>>, c)
        BY <3>1, AssetsRead
      <4>2. <<"ROOT", c>> \in K
        BY <2>1 DEF Lost, LostSteps, AppSteps
      <4> DEFINE o == <<>>
      <4>3. o \in Seq(Int)
        OBVIOUS
      <4> HIDE DEF K, c, o
      <4>4. At("ROOT", o, c) \in StatesOf(K)
        BY <4>2, <4>3, InStatesOf
      <4> QED BY <4>1, <4>4 DEF o
    <3>2. CASE ~d.assets
      <4> DEFINE N == 2 * FieldsAfterAlgo(d)
      <4>1. N \in Int /\ N - 2 # 0 /\ N - 1 # 0 /\ N # 1
        <5> DEFINE x == FieldsAfterAlgo(d)
        <5>1. x \in Nat /\ x >= 2
          BY DEF FieldsAfterAlgo, FieldCount
        <5> HIDE DEF x
        <5> QED BY <5>1 DEF x
      <4>2. AfterAssets(d, a) = At("ROOT", Append(<<>>, N), c)
        BY <2>1, <3>2, AssetsRead
      <4> HIDE DEF N, c
      <4>3. Parse!Fold(At("ROOT", Append(<<>>, N), c), ListTokens(d)) \in StatesOf(K)
        BY <2>1, <4>1, ListRead
      <4> HIDE DEF K
      <4>4. AfterList(d, a) \in StatesOf(K)
        BY <4>2, <4>3 DEF AfterList
      <4>5. LastTokens \in Seq(TokensWith(last))
        <5> DEFINE T == TokensWith(last)
        <5>1. Str("ebase") \in T /\ Str("tsch") \in T /\ Str("nui") \in T /\ UInt(1) \in T /\ MapOf(1) \in T
          BY OneToken
        <5> HIDE DEF T
        <5>2. LastTokens \in Seq(T)
          BY <5>1 DEF LastTokens
        <5> QED BY <5>2 DEF T
      <4> HIDE DEF last
      <4> QED BY <2>2, <4>4, <4>5, ReadKeeps DEF AfterLast
    <3> QED BY <3>1, <3>2
  <2> HIDE DEF K, last
  <2>4. PICK ka \in K : b = ka[2]
    BY <2>2, <2>3, EndKeeps, ReadingInParts
  <2> QED BY <2>4 DEF K, Over, Full, Lost
<1> QED
  BY <1>1, <1>2
-----------------------------------------------------------------------------
(* The first answer.  What is known of an account with amount v after k    *)
(* applications of answer d, and inside of the next one after i variables. *)
AppIsRead(x, d, j) ==
  /\ x.apps[j].app_id = IdsOf(d)[j + 1]
  /\ x.apps[j].kv_count = Len(d.apps[IdsOf(d)[j + 1]])

ReadApps(d, v, k) ==
  {x \in Details : /\ x.amount = v /\ x.app_idx = k
                   /\ \A j \in 0..(k - 1) : AppIsRead(x, d, j)
                   /\ \A j \in k..(AppsMaxCount - 1) : x.apps[j].kv_count = 0}

ReadVariables(d, v, k, i) ==
  {x \in Details : /\ x.amount = v /\ x.app_idx = k
                   /\ \A j \in 0..(k - 1) : AppIsRead(x, d, j)
                   /\ x.apps[k].app_id = IdsOf(d)[k + 1] /\ x.apps[k].kv_count = i
                   /\ \A j \in (k + 1)..(AppsMaxCount - 1) : x.apps[j].kv_count = 0}

(* What the first answer stores, step by step.                             *)
LEMMA FirstSteps ==
  ASSUME NEW d, NEW v, NEW k \in Nat, k < AppsMaxCount, IdsOf(d)[k + 1] \in Nat
  PROVE  /\ \A b \in ReadApps(d, v, k) : WithId(b, IdsOf(d)[k + 1]) \in ReadVariables(d, v, k, 0)
         /\ \A i \in Nat : \A c \in ReadVariables(d, v, k, i) :
              CountOf(c) = i /\ OneMore(c) \in ReadVariables(d, v, k, i + 1)
         /\ \A c \in ReadVariables(d, v, k, Len(d.apps[IdsOf(d)[k + 1]])) : NextApp(c) \in ReadApps(d, v, k + 1)
<1> DEFINE id == IdsOf(d)[k + 1]
<1>0. k \in AppIdxs /\ (\A j \in 0..(k - 1) : j \in AppIdxs /\ j # k)
      /\ (\A j \in (k + 1)..(AppsMaxCount - 1) : j \in AppIdxs /\ j # k /\ j \in k..(AppsMaxCount - 1))
      /\ k \in k..(AppsMaxCount - 1)
  BY AccountParserAssumption DEF AppIdxs
<1>1. ASSUME NEW b \in ReadApps(d, v, k) PROVE WithId(b, id) \in ReadVariables(d, v, k, 0)
  <2> DEFINE c == WithId(b, id)
  <2>1. /\ b \in Details /\ b.app_idx = k /\ b.amount = v
        /\ \A j \in 0..(k - 1) : AppIsRead(b, d, j)
        /\ \A j \in k..(AppsMaxCount - 1) : b.apps[j].kv_count = 0
    BY DEF ReadApps
  <2>2. c \in Details
    BY <2>1, AccountChanges
  <2>3. b.apps \in [AppIdxs -> [app_id : Nat, kv_count : Nat]]
    BY <2>1 DEF Details
  <2>4. /\ c.amount = v /\ c.app_idx = k
        /\ c.apps = [b.apps EXCEPT ![k] = [app_id |-> id, kv_count |-> b.apps[k].kv_count]]
    BY <2>1 DEF WithId, Details
  <2> HIDE DEF c
  <2>5. c.apps[k].app_id = id /\ c.apps[k].kv_count = 0
    BY <1>0, <2>1, <2>3, <2>4
  <2>6. \A j \in AppIdxs : j # k => c.apps[j] = b.apps[j]
    BY <2>3, <2>4
  <2>7. \A j \in 0..(k - 1) : AppIsRead(c, d, j)
    BY <1>0, <2>1, <2>6 DEF AppIsRead
  <2>8. \A j \in (k + 1)..(AppsMaxCount - 1) : c.apps[j].kv_count = 0
    BY <1>0, <2>1, <2>6
  <2> QED BY <2>2, <2>4, <2>5, <2>7, <2>8 DEF ReadVariables, c
<1>2. ASSUME NEW i \in Nat, NEW c \in ReadVariables(d, v, k, i)
      PROVE  CountOf(c) = i /\ OneMore(c) \in ReadVariables(d, v, k, i + 1)
  <2> DEFINE e == OneMore(c)
  <2>1. /\ c \in Details /\ c.app_idx = k /\ c.amount = v
        /\ \A j \in 0..(k - 1) : AppIsRead(c, d, j)
        /\ c.apps[k].app_id = id /\ c.apps[k].kv_count = i
        /\ \A j \in (k + 1)..(AppsMaxCount - 1) : c.apps[j].kv_count = 0
    BY DEF ReadVariables
  <2>2. e \in Details
    BY <2>1, AccountChanges
  <2>3. c.apps \in [AppIdxs -> [app_id : Nat, kv_count : Nat]]
    BY <2>1 DEF Details
  <2>4. e.amount = v /\ e.app_idx = k /\ e.apps = [c.apps EXCEPT ![k].kv_count = @ + 1]
    BY <2>1 DEF OneMore, Details
  <2> HIDE DEF e
  <2>5. e.apps[k].app_id = id /\ e.apps[k].kv_count = i + 1
    BY <1>0, <2>1, <2>3, <2>4
  <2>6. \A j \in AppIdxs : j # k => e.apps[j] = c.apps[j]
    BY <2>3, <2>4
  <2>7. \A j \in 0..(k - 1) : AppIsRead(e, d, j)
    BY <1>0, <2>1, <2>6 DEF AppIsRead
  <2>8. \A j \in (k + 1)..(AppsMaxCount - 1) : e.apps[j].kv_count = 0
    BY <1>0, <2>1, <2>6
  <2>9. CountOf(c) = i
    BY <2>1 DEF CountOf
  <2> QED BY <2>2, <2>4, <2>5, <2>7, <2>8, <2>9 DEF ReadVariables, e
<1>3. ASSUME NEW c \in ReadVariables(d, v, k, Len(d.apps[id])) PROVE NextApp(c) \in ReadApps(d, v, k + 1)
  <2> DEFINE e == NextApp(c)
             l == Len(d.apps[id])
  <2>1. /\ c \in Details /\ c.app_idx = k /\ c.amount = v
        /\ \A j \in 0..(k - 1) : AppIsRead(c, d, j)
        /\ c.apps[k].app_id = id /\ c.apps[k].kv_count = l
        /\ \A j \in (k + 1)..(AppsMaxCount - 1) : c.apps[j].kv_count = 0
    BY DEF ReadVariables
  <2>2. e \in Details
    BY <2>1, AccountChanges
  <2>3. e.amount = v /\ e.app_idx = k + 1 /\ e.apps = c.apps
    BY <2>1 DEF NextApp, Details
  <2>4. AppIsRead(c, d, k)
    BY <2>1 DEF AppIsRead
  <2> HIDE DEF e
  <2>5. \A j \in 0..((k + 1) - 1) : AppIsRead(c, d, j)
    <3>1. \A j \in 0..((k + 1) - 1) : j = k \/ j \in 0..(k - 1)
      OBVIOUS
    <3> QED BY <2>1, <2>4, <3>1
  <2>6. \A j \in 0..((k + 1) - 1) : AppIsRead(e, d, j)
    BY <2>3, <2>5 DEF AppIsRead
  <2> QED BY <2>1, <2>2, <2>3, <2>6 DEF ReadApps, e
<1> QED
  BY <1>1, <1>2, <1>3

AfterApps(d, v, k, q, n) == {LeaveMaps(At("APPL", Append(q, n), e)) : e \in ReadApps(d, v, k)}

(* The first answer's application k is stored at place k, its id and the   *)
(* number of its variables.                                                *)
LEMMA FirstAppRead ==
  ASSUME NEW d, NEW v, NEW k \in Nat, k < AppsMaxCount, NEW app \in Nat, IdsOf(d)[k + 1] = app,
         d.apps[app] \in Seq(Variables), ~HasSlice(d.apps[app]), Len(d.apps[app]) <= AppsKvMaxCount,
         NEW q \in Seq(Int), NEW n \in Int, n # 1, NEW b \in ReadApps(d, v, k)
  PROVE  Parse!Fold(At("APPL", Append(q, n), b), AppTokens(app, d.apps[app])) \in AfterApps(d, v, k + 1, q, n - 2)
<1> DEFINE vs == d.apps[app]
           l == Len(vs)
           names == Names
           T == TokensWith(names)
           h == AppHead(app, l)
           ss == VariablesTokens(vs)
           r == Append(q, n - 1)
           r1 == Append(r, 1)
           I == [i \in 0..l |-> {LeaveMaps(At("APP_KV", Append(r1, 2 * (l - i)), c)) : c \in ReadVariables(d, v, k, i)}]
           c0 == WithId(b, app)
           st == At("APPL", Append(q, n), b)
           st8 == LeaveMaps(At("APP_KV", Append(r1, 2 * l), c0))
<1>1. /\ b \in Details /\ b.app_idx = k /\ b.app_idx < AppsMaxCount /\ b.app_idx \in Nat
      /\ c0 \in ReadVariables(d, v, k, 0)
  BY FirstSteps DEF ReadApps
<1>2. l \in Nat /\ Len(ss) = l /\ vs \in Seq(Variables)
      /\ \A i \in 1..l : vs[i] \in Variables /\ ss[i] = IntTokens(vs[i])
  <2>1. vs \in Seq(Variables) /\ l \in Nat /\ DOMAIN vs = 1..l
    OBVIOUS
  <2>2. Len(ss) = l /\ \A i \in 1..l : ss[i] = VariableTokens(vs[i])
    BY <2>1 DEF VariablesTokens
  <2>3. ASSUME NEW i \in 1..l PROVE vs[i] \in Variables /\ ss[i] = IntTokens(vs[i])
    <3>1. vs[i] \in Variables /\ vs[i].type # "slice"
      BY <2>1 DEF HasSlice
    <3>2. vs[i].type = "int"
      BY <3>1 DEF Variables
    <3>3. ss[i] = VariableTokens(vs[i])
      BY <2>2
    <3> HIDE DEF ss, vs
    <3> QED BY <3>1, <3>2, <3>3 DEF VariableTokens, IntTokens
  <2> QED BY <2>1, <2>2, <2>3
<1>3. KeysOfApps \subseteq names /\ NamesIn(vs, names)
  <2>1. KeysOfApps \subseteq names
    BY DEF Names
  <2>2. ASSUME NEW i \in DOMAIN vs PROVE vs[i].name \in names
    <3>1. vs[i] \in Variables
      BY <1>2
    <3> HIDE DEF vs
    <3> QED BY <3>1 DEF Variables, Names
  <2> HIDE DEF vs, names
  <2> QED BY <2>1, <2>2 DEF NamesIn
<1>4. /\ AppTokens(app, vs) = h \o FlattenSeq(ss) /\ h \in Seq(T)
      /\ ss \in Seq(Seq(T)) /\ FlattenSeq(ss) \in Seq(T)
  <2> HIDE DEF vs, names
  <2> QED BY <1>2, <1>3, AppTyped
<1>5. Parse!Fold(st, h) = st8
  BY <1>1, HeadRead
<1>6. r \in Seq(Int) /\ r1 \in Seq(Int)
  OBVIOUS
<1> HIDE DEF names, T, l, h, ss, c0, r, vs, st
<1>7. st8 \in I[0]
  <2>1. 0 \in 0..l /\ 2 * (l - 0) = 2 * l
    BY <1>2
  <2>2. I[0] = {LeaveMaps(At("APP_KV", Append(r1, 2 * l), c)) : c \in ReadVariables(d, v, k, 0)}
    BY <2>1
  <2> HIDE DEF I, r1
  <2> QED BY <1>1, <2>2
<1>8. ASSUME NEW i \in 1..l, NEW x \in I[i - 1] PROVE Parse!Fold(x, ss[i]) \in I[i]
  <2> DEFINE n2 == 2 * (l - (i - 1))
             w == vs[i]
  <2>1. i \in 0..l /\ i - 1 \in 0..l /\ i - 1 \in Nat /\ (i - 1) + 1 = i /\ i - 1 < l
    BY <1>2
  <2>2. n2 \in Int /\ n2 # 0 /\ n2 # 1 /\ n2 - 2 = 2 * (l - i)
    BY <1>2, <2>1
  <2>3. PICK c \in ReadVariables(d, v, k, i - 1) : x = LeaveMaps(At("APP_KV", Append(r1, n2), c))
    BY <2>1
  <2>4. CountOf(c) = i - 1 /\ OneMore(c) \in ReadVariables(d, v, k, i)
    <3> DEFINE i0 == i - 1
    <3>1. i0 \in Nat /\ i0 + 1 = i
      BY <2>1
    <3> HIDE DEF i0
    <3>2. CountOf(c) = i0 /\ OneMore(c) \in ReadVariables(d, v, k, i0 + 1)
      BY <2>3, <3>1, FirstSteps DEF i0
    <3> QED BY <3>1, <3>2 DEF i0
  <2>5. CountOf(c) \in Nat /\ CountOf(c) < AppsKvMaxCount
    <3>1. l <= AppsKvMaxCount
      BY DEF l, vs
    <3> QED BY <1>2, <2>1, <2>4, <3>1, AccountParserAssumption
  <2> HIDE DEF n2, w, r1
  <2>6. x = At("APP_KV", Append(r1, n2), c)
    BY <1>6, <2>2, <2>3, StayIn
  <2>7. Parse!Fold(At("APP_KV", Append(r1, n2), c), IntTokens(w)) = LeaveMaps(At("APP_KV", Append(r1, n2 - 2), OneMore(c)))
    <3>1. r1 \in Seq(Int) /\ n2 \in Int /\ n2 # 1
      BY <1>6, <2>2
    <3>2. CountOf(c) \in Nat /\ CountOf(c) < AppsKvMaxCount
      BY <2>5
    <3> QED BY <3>1, <3>2, IntRead
  <2>8. Parse!Fold(x, ss[i]) = LeaveMaps(At("APP_KV", Append(r1, 2 * (l - i)), OneMore(c)))
    BY <1>2, <2>2, <2>6, <2>7 DEF w
  <2>9. I[i] = {LeaveMaps(At("APP_KV", Append(r1, 2 * (l - i)), cc)) : cc \in ReadVariables(d, v, k, i)}
    BY <2>1
  <2> HIDE DEF I
  <2> QED BY <2>4, <2>8, <2>9
<1>9. Parse!Fold(st8, FlattenSeq(ss)) \in I[l]
  <2> HIDE DEF I, st8
  <2>1. Parse!Fold(st8, Parse!FlattenSeq(ss)) \in I[Len(ss)]
    BY <1>2, <1>4, <1>7, <1>8, Parse!FoldFlatten
  <2> QED BY <1>2, <2>1, Flattened
<1>10. PICK c \in ReadVariables(d, v, k, l) : Parse!Fold(st8, FlattenSeq(ss)) = LeaveMaps(At("APP_KV", Append(r1, 0), c))
  <2>1. l \in 0..l /\ 2 * (l - l) = 0
    BY <1>2
  <2>2. I[l] = {LeaveMaps(At("APP_KV", Append(r1, 0), c)) : c \in ReadVariables(d, v, k, l)}
    BY <2>1
  <2> HIDE DEF I, r1
  <2> QED BY <1>9, <2>2
<1>11. LeaveMaps(At("APP_KV", Append(r1, 0), c)) = LeaveMaps(At("APPL", Append(q, n - 2), NextApp(c)))
  <2> DEFINE m == n - 1
  <2>1. m \in Int /\ m - 1 = n - 2
    OBVIOUS
  <2> HIDE DEF m
  <2>2. LeaveMaps(At("APP_KV", Append(Append(Append(q, m), 1), 0), c)) = LeaveMaps(At("APPL", Append(q, m - 1), NextApp(c)))
    BY <2>1, AppEnd
  <2> QED BY <2>1, <2>2 DEF r, m
<1>12. NextApp(c) \in ReadApps(d, v, k + 1)
  BY FirstSteps DEF l, vs
<1>13. Parse!Fold(st, AppTokens(app, vs)) = Parse!Fold(st8, FlattenSeq(ss))
  <2> DEFINE w == FlattenSeq(ss)
  <2>1. w \in Seq(T)
    BY <1>4
  <2> HIDE DEF w
  <2>2. Parse!Fold(st, h \o w) = Parse!Fold(Parse!Fold(st, h), w)
    BY <1>4, <2>1, Parse!FoldConcat
  <2> QED BY <1>4, <1>5, <2>2 DEF w
<1>14. LeaveMaps(At("APPL", Append(q, n - 2), NextApp(c))) \in AfterApps(d, v, k + 1, q, n - 2)
  BY <1>12 DEF AfterApps
<1> QED
  BY <1>10, <1>11, <1>13, <1>14 DEF st, vs
(* Once the applications are read the account stays.                       *)
TailSteps == {"ROOT", "EBASE", "ERN", "TSCH", "TSCH_NUI"}

(* What follows the applications stores nothing.                           *)
LEMMA TailKeeps ==
  ASSUME NEW b, NEW o \in Seq(Int)
  PROVE  EndOfAnswer(Parse!Fold(At("ROOT", o, b), LastTokens)).account = b
<1> DEFINE K == {<<p, b>> : p \in TailSteps}
           last == {"ebase", "tsch", "nui"}
<1>1. ASSUME NEW ka \in K
      PROVE  /\ ka = <<ka[1], ka[2]>>
             /\ \A s \in last : /\ StringFails(ka[1], ka[2], s) \in BOOLEAN
                                /\ <<StringStep(ka[1], s), ka[2]>> \in K
             /\ \A v \in Nat : <<UIntStep(ka[1], ka[2]), UIntAccount(ka[1], ka[2], v)>> \in K
             /\ <<FinishStep(ka[1]), FinishAccount(ka[1], ka[2])>> \in K
  <2>1. PICK p \in TailSteps : ka = <<p, b>>
    OBVIOUS
  <2>2. \A next \in TailSteps : <<next, b>> \in K
    OBVIOUS
  <2> HIDE DEF K
  <2>3. ka = <<ka[1], ka[2]>> /\ ka[1] = p /\ ka[2] = b
    BY <2>1
  <2>4. ASSUME NEW s \in last PROVE StringFails(p, b, s) \in BOOLEAN /\ StringStep(p, s) \in TailSteps
    <3>1. s # "appl" /\ s # "algo" /\ s # "ern" /\ p # "APP_KV" /\ p \in TailSteps
      BY DEF TailSteps
    <3> HIDE DEF last
    <3>2. StringStep(p, s) \in TailSteps
      <4>1. CASE p = "ROOT"
        BY <3>1, <4>1 DEF StringStep, IsKey, StepOfKey, TailSteps
      <4>2. CASE p = "TSCH"
        BY <3>1, <4>2 DEF StringStep, IsKey, StepOfKey, TailSteps
      <4>3. CASE p \notin {"ROOT", "TSCH"}
        <5>1. ~IsKey(p, s)
          BY <3>1, <4>3 DEF IsKey, StepOfKey, TailSteps
        <5> QED BY <3>1, <5>1 DEF StringStep
      <4> QED BY <4>1, <4>2, <4>3
    <3>3. StringFails(p, b, s) \in BOOLEAN
      <4>1. CASE IsKey(p, s)
        BY <4>1 DEF StringFails, StringErr
      <4>2. CASE ~IsKey(p, s)
        BY <3>1, <4>2 DEF StringFails, StringErr
      <4> QED BY <4>1, <4>2
    <3> QED BY <3>2, <3>3
  <2>5. UIntStep(p, b) \in TailSteps /\ FinishStep(p) \in TailSteps
    BY DEF UIntStep, FinishStep, StepOfUInt, TailSteps
  <2>6. \A v \in Nat : UIntAccount(p, b, v) = b
    BY DEF UIntAccount, TailSteps
  <2>7. FinishAccount(p, b) = b
    BY DEF FinishAccount, TailSteps
  <2> QED BY <2>2, <2>3, <2>4, <2>5, <2>6, <2>7
<1>2. <<"ROOT", b>> \in K
  BY DEF TailSteps
<1>3. \A ka \in K : ka[2] = b
  OBVIOUS
<1> HIDE DEF K
<1>4. Closed(K, last)
  BY <1>1 DEF Closed
<1> DEFINE T == TokensWith(last)
<1>5. Str("ebase") \in T /\ Str("tsch") \in T /\ Str("nui") \in T /\ UInt(1) \in T /\ MapOf(1) \in T
  BY OneToken
<1> HIDE DEF T
<1>6. LastTokens \in Seq(T)
  BY <1>5 DEF LastTokens
<1>7. At("ROOT", o, b) \in StatesOf(K)
  BY <1>2, InStatesOf
<1> HIDE DEF last
<1>8. Parse!Fold(At("ROOT", o, b), LastTokens) \in StatesOf(K)
  BY <1>4, <1>6, <1>7, ReadKeeps DEF T
<1> QED
  BY <1>3, <1>4, <1>8, EndKeeps

(* The first answer's applications are stored in the order of their ids,   *)
(* one place each: the induction over the applications.                    *)
LEMMA FirstListRead ==
  ASSUME NEW d, IsAnswer(d), Fits(d), NEW v,
         NEW N \in Int, N - 2 # 0, N - 1 # 0, N # 1, NEW b \in ReadApps(d, v, 0)
  PROVE  \E c \in ReadApps(d, v, AppCount(d)), o \in Seq(Int) :
           Parse!Fold(At("ROOT", Append(<<>>, N), b), ListTokens(d)) = At("ROOT", o, c)
<1> DEFINE q == <<>>
           names == Names
           T == TokensWith(names)
           n == AppCount(d)
           ss == AllAppTokens(d)
           st0 == At("ROOT", Append(q, N), b)
<1>0. /\ KeysOfApps \subseteq Names
      /\ \A app \in DOMAIN d.apps : NamesIn(d.apps[app], Names)
  <2>1. KeysOfApps \subseteq Names
    BY DEF Names
  <2>2. ASSUME NEW app \in DOMAIN d.apps PROVE NamesIn(d.apps[app], Names)
    <3> DEFINE vs == d.apps[app]
    <3>1. vs \in Seq(Variables)
      BY DEF IsAnswer, Variables
    <3> HIDE DEF vs
    <3>2. ASSUME NEW i \in DOMAIN vs PROVE vs[i].name \in Names
      <4>1. vs[i] \in Variables
        BY <3>1
      <4> QED BY <4>1 DEF Variables, Names
    <3>3. NamesIn(vs, Names)
      BY <3>2 DEF NamesIn
    <3> QED BY <3>3 DEF vs
  <2> QED BY <2>1, <2>2
<1>1. /\ q \in Seq(Int) /\ n \in Nat
      /\ \A i \in 1..n : IdsOf(d)[i] \in DOMAIN d.apps /\ IdsOf(d)[i] \in Nat /\ d.apps[IdsOf(d)[i]] \in Seq(Variables)
      /\ ss \in Seq(Seq(T)) /\ Len(ss) = n /\ AppsTokens(d.apps) = FlattenSeq(ss) /\ AppsTokens(d.apps) \in Seq(T)
  <2>0. q \in Seq(Int)
    OBVIOUS
  <2>1. KeysOfApps \subseteq names /\ \A app \in DOMAIN d.apps : NamesIn(d.apps[app], names)
    BY <1>0
  <2> HIDE DEF names
  <2>2. n \in Nat
    BY <2>1, AnswerApps
  <2>3. \A i \in 1..n : IdsOf(d)[i] \in DOMAIN d.apps /\ IdsOf(d)[i] \in Nat /\ d.apps[IdsOf(d)[i]] \in Seq(Variables)
    BY <2>1, AnswerApps
  <2>4. ss \in Seq(Seq(T)) /\ Len(ss) = n /\ AppsTokens(d.apps) = FlattenSeq(ss) /\ AppsTokens(d.apps) \in Seq(T)
    BY <2>1, AnswerApps
  <2> HIDE DEF q, n, ss, T
  <2> QED BY <2>0, <2>2, <2>3, <2>4
<1>2. n <= AppsMaxCount
  BY DEF Fits, AppCount
<1>3. CASE DOMAIN d.apps = {}
  <2> DEFINE o == Append(q, N)
  <2>1. ListTokens(d) = <<>> /\ o \in Seq(Int) /\ n = 0
    BY <1>1, <1>3, FS_EmptySet DEF ListTokens, AppCount
  <2> HIDE DEF o, st0, n
  <2>2. Parse!Fold(st0, <<>>) = st0
    BY Parse!FoldEmpty
  <2> QED BY <2>1, <2>2 DEF st0, o, q, n
<1>4. CASE DOMAIN d.apps # {}
  <2> DEFINE r == Append(q, N - 1)
             I == [k \in 0..n |-> AfterApps(d, v, k, r, 2 * (n - k))]
             st1 == At("APPL", Append(r, 2 * n), b)
  <2>1. n # 0
    <3>1. IsFiniteSet(DOMAIN d.apps)
      BY DEF IsAnswer
    <3> QED BY <1>4, <3>1, FS_EmptySet DEF AppCount
  <2>2. ListTokens(d) = <<Str("appl"), MapOf(n)>> \o AppsTokens(d.apps)
    BY <1>4 DEF ListTokens
  <2>3. parse_element(st0, Str("appl")) = At("APPL", r, b)
    <3> HIDE DEF q
    <3> QED BY <1>1, KeysUnderstood, KeyOn
  <2>4. parse_element(At("APPL", r, b), MapOf(n)) = st1
    <3> DEFINE k == N - 1
    <3>1. k \in Int
      OBVIOUS
    <3> HIDE DEF k, q, n
    <3>2. parse_element(At("APPL", Append(q, k), b), MapOf(n)) = At("APPL", Append(Append(q, k), 2 * n), b)
      BY <1>1, <2>1, <3>1, MapOn
    <3> QED BY <3>2 DEF k
  <2>5. r \in Seq(Int)
    OBVIOUS
  <2> HIDE DEF q, T, n, ss, st0, r
  <2>6. st1 \in I[0]
    <3>1. 0 \in 0..n /\ 2 * (n - 0) = 2 * n /\ 2 * n \in Int /\ 2 * n # 0
      BY <1>1, <2>1
    <3>2. LeaveMaps(At("APPL", Append(r, 2 * n), b)) = st1
      BY <2>5, <3>1, StayIn
    <3>3. I[0] = {LeaveMaps(At("APPL", Append(r, 2 * n), x)) : x \in ReadApps(d, v, 0)}
      BY <3>1 DEF AfterApps
    <3> HIDE DEF I, st1
    <3> QED BY <3>2, <3>3
  <2>7. ASSUME NEW i \in 1..n, NEW x \in I[i - 1] PROVE Parse!Fold(x, ss[i]) \in I[i]
    <3> DEFINE k == i - 1
               app == IdsOf(d)[i]
               n2 == 2 * (n - (i - 1))
    <3>1. /\ i \in 0..n /\ k \in 0..n /\ k \in Nat /\ k + 1 = i /\ k < AppsMaxCount
          /\ n2 \in Int /\ n2 # 0 /\ n2 # 1 /\ n2 - 2 = 2 * (n - i)
      BY <1>1, <1>2, AccountParserAssumption
    <3>2. /\ app \in Nat /\ IdsOf(d)[k + 1] = app /\ d.apps[app] \in Seq(Variables)
          /\ ~HasSlice(d.apps[app]) /\ Len(d.apps[app]) <= AppsKvMaxCount
      BY <1>1, <3>1 DEF Fits
    <3>3. PICK y \in ReadApps(d, v, k) : x = LeaveMaps(At("APPL", Append(r, n2), y))
      BY <3>1 DEF AfterApps
    <3>4. ss[i] = AppTokens(app, d.apps[app])
      BY DEF ss, AllAppTokens, n
    <3>5. I[i] = AfterApps(d, v, i, r, 2 * (n - i))
      BY <3>1
    <3> HIDE DEF I, k, app, n2
    <3>6. x = At("APPL", Append(r, n2), y)
      BY <2>5, <3>1, <3>3, StayIn
    <3>7. Parse!Fold(At("APPL", Append(r, n2), y), AppTokens(app, d.apps[app])) \in AfterApps(d, v, k + 1, r, n2 - 2)
      <4>1. /\ k \in Nat /\ k < AppsMaxCount /\ app \in Nat /\ IdsOf(d)[k + 1] = app
            /\ d.apps[app] \in Seq(Variables) /\ ~HasSlice(d.apps[app]) /\ Len(d.apps[app]) <= AppsKvMaxCount
            /\ r \in Seq(Int) /\ n2 \in Int /\ n2 # 1
            /\ y \in ReadApps(d, v, k)
        BY <2>5, <3>1, <3>2
      <4> QED BY <4>1, FirstAppRead
    <3> QED BY <3>1, <3>4, <3>5, <3>6, <3>7
  <2>8. Parse!Fold(st1, FlattenSeq(ss)) \in I[n]
    <3> HIDE DEF I, st1
    <3>1. Parse!Fold(st1, Parse!FlattenSeq(ss)) \in I[Len(ss)]
      BY <1>1, <2>6, <2>7, Parse!FoldFlatten
    <3> QED BY <1>1, <3>1, Flattened
  <2>9. PICK c \in ReadApps(d, v, n) : Parse!Fold(st1, FlattenSeq(ss)) = LeaveMaps(At("APPL", Append(r, 0), c))
    <3>1. n \in 0..n /\ 2 * (n - n) = 0
      BY <1>1
    <3>2. I[n] = {LeaveMaps(At("APPL", Append(r, 0), x)) : x \in ReadApps(d, v, n)}
      BY <3>1 DEF AfterApps
    <3> HIDE DEF I, st1
    <3> QED BY <2>8, <3>2
  <2> DEFINE k == N - 1
             o == Append(q, k - 1)
  <2>10. k \in Int /\ k - 1 \in Int /\ k - 1 # 0 /\ o \in Seq(Int)
    BY <1>1 DEF q
  <2>11. LeaveMaps(At("APPL", Append(r, 0), c)) = At("ROOT", o, c)
    <3> HIDE DEF k
    <3>1. LeaveMaps(At("APPL", Append(Append(q, k), 0), c)) =
            LeaveMaps(At(FinishStep("APPL"), Append(q, k - 1), FinishAccount("APPL", c)))
      BY <1>1, <2>10, LeaveInner
    <3>2. FinishStep("APPL") = "ROOT" /\ FinishAccount("APPL", c) = c
      BY DEF FinishStep, FinishAccount
    <3>3. LeaveMaps(At("ROOT", Append(q, k - 1), c)) = At("ROOT", Append(q, k - 1), c)
      BY <1>1, <2>10, StayIn
    <3> QED BY <3>1, <3>2, <3>3 DEF o, r, k
  <2>12. Parse!Fold(st0, ListTokens(d)) = Parse!Fold(st1, FlattenSeq(ss))
    <3> DEFINE h == <<Str("appl"), MapOf(n)>>
               w == AppsTokens(d.apps)
    <3>1. h \in Seq(T)
      <4>1. "appl" \in names
        BY DEF Names, KeysOfAccount
      <4> HIDE DEF names
      <4>2. Str("appl") \in T /\ MapOf(n) \in T
        BY <1>1, <4>1, OneToken DEF T
      <4> QED BY <4>2
    <3>2. Parse!Fold(st0, h) = st1
      <4> HIDE DEF st1
      <4> QED BY <2>3, <2>4, TwoRead
    <3>3. w \in Seq(T)
      BY <1>1
    <3> HIDE DEF h, w
    <3>4. Parse!Fold(st0, h \o w) = Parse!Fold(Parse!Fold(st0, h), w)
      BY <3>1, <3>3, Parse!FoldConcat
    <3> QED BY <1>1, <2>2, <3>2, <3>4 DEF h, w
  <2> HIDE DEF o, k
  <2> QED BY <2>9, <2>10, <2>11, <2>12 DEF st0, q, n
<1> QED
  BY <1>3, <1>4

(* What fits is read completely into an empty account.                     *)
LEMMA FirstRead ==
  ASSUME NEW d, IsAnswer(d), Fits(d)
  PROVE  LET b == parser_account_mpack(Tokens(d), EmptyDetails) IN
         /\ b.amount = IF d.algo # 0 THEN AsInt32(d.algo) ELSE 0
         /\ b \in ReadApps(d, b.amount, AppCount(d))
<1> DEFINE a == EmptyDetails
           c == WithAnswered(a, d)
           v == IF d.algo # 0 THEN AsInt32(d.algo) ELSE 0
           N == 2 * FieldsAfterAlgo(d)
<1>1. a \in Details
  BY AccountParserAssumption DEF EmptyDetails, Details, Amounts, AppIdxs
<1>2. /\ AfterAlgo(d, a) = At("ROOT", Append(<<>>, N), c)
      /\ c \in Details /\ c.apps = a.apps /\ c.app_idx = a.app_idx
  BY <1>1, AlgoRead
<1>3. c.amount = v
  <2>1. d.algo \in Nat
    BY DEF IsAnswer
  <2>2. WithAmount(a, AsInt32(d.algo)).amount = AsInt32(d.algo)
    BY <1>1, <2>1, AmountFits, AccountChanges
  <2>3. a.amount = 0
    BY DEF EmptyDetails
  <2> QED BY <2>2, <2>3 DEF WithAnswered
<1>4. c \in ReadApps(d, v, 0)
  <2>1. a.app_idx = 0 /\ \A j \in 0..(AppsMaxCount - 1) : a.apps[j].kv_count = 0
    BY DEF EmptyDetails
  <2>2. 0..(0 - 1) = {}
    OBVIOUS
  <2> HIDE DEF a, c, v
  <2> QED BY <1>2, <1>3, <2>1, <2>2 DEF ReadApps
<1>5. N \in Int /\ N - 2 # 0 /\ N - 1 # 0 /\ N # 1
  <2> DEFINE x == FieldsAfterAlgo(d)
  <2>1. x \in Nat /\ x >= 2
    BY DEF FieldsAfterAlgo, FieldCount
  <2> HIDE DEF x
  <2> QED BY <2>1 DEF x
<1>6. AfterAssets(d, a) = At("ROOT", Append(<<>>, N), c)
  BY <1>1, <1>2, AssetsRead DEF Fits
<1> HIDE DEF a, c, v, N
<1>7. PICK b \in ReadApps(d, v, AppCount(d)), o \in Seq(Int) :
        Parse!Fold(At("ROOT", Append(<<>>, N), c), ListTokens(d)) = At("ROOT", o, b)
  BY <1>4, <1>5, FirstListRead
<1>8. AfterLast(d, a) = Parse!Fold(At("ROOT", o, b), LastTokens)
  BY <1>6, <1>7 DEF AfterLast, AfterList
<1>9. parser_account_mpack(Tokens(d), a) = b
  BY <1>8, TailKeeps, ReadingInParts
<1>10. b.amount = v
  BY DEF ReadApps
<1> QED
  BY <1>7, <1>9, <1>10 DEF a, v

=============================================================================
