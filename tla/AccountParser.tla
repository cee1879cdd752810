---------------------------- MODULE AccountParser ----------------------------
(***************************************************************************)
(* How an account is read: parser_account_mpack and its callbacks, in      *)
(* src/algorand/algorand_parser.c.                                         *)
(*                                                                         *)
(* An answer is a sequence of MessagePack tokens: one map with the fields  *)
(* of the account, in it a map of the applications that the account has    *)
(* opted in to, each with a map of its schema and one of its variables.    *)
(* The parser has one "step", which says which key it saw last, and the    *)
(* maps it is inside of.  An error ends the innermost map, finish_map      *)
(* hides it, and what was left of that map is read as if it belonged to    *)
(* the map around it.                                                      *)
(*                                                                         *)
(* Only what the SDK uses again is kept: the amount, the application ids   *)
(* and how many variables each application has.                            *)
(***************************************************************************)
EXTENDS Integers, SequencesExt

CONSTANTS
  AppsMaxCount,    \* APPS_MAX_COUNT
  AppsKvMaxCount,  \* APPS_KV_MAX_COUNT
  VariableNames,   \* the names that the authors of applications give to variables
  IntRange         \* 2^32, the number of values of an int32_t

ASSUME AccountParserAssumption ==
  /\ AppsMaxCount \in Nat \ {0}
  /\ AppsKvMaxCount \in Nat \ {0}
  /\ IntRange \in Nat \ {0} /\ IntRange % 2 = 0

-----------------------------------------------------------------------------
(* Tokens and answers.                                                     *)
Str(s) == [kind |-> "str", value |-> s]
UInt(n) == [kind |-> "uint", value |-> n]
MapOf(n) == [kind |-> "map", value |-> n]

(* A variable of an application has a name, of its author's choice, and a  *)
(* type; strncmp with the length of the name takes a beginning of a key    *)
(* for the key, which is what such a name stands for.                      *)
VariableTokens(v) ==
  IF v.type = "int" THEN <<Str(v.name), MapOf(2), Str("tt"), UInt(2), Str("ui"), UInt(1)>>
  ELSE <<Str(v.name), MapOf(2), Str("tb"), Str("bytes"), Str("tt"), UInt(1)>>

AppTokens(app, variables) ==
  <<UInt(app), MapOf(2), Str("hsch"), MapOf(1), Str("nui"), UInt(1), Str("tkv"), MapOf(Len(variables))>>
    \o FlattenSeq([i \in 1..Len(variables) |-> VariableTokens(variables[i])])

(* The applications in the order of their ids. *)
SortedIds(apps) ==
  LET n == Cardinality(DOMAIN apps)
  IN  CHOOSE ids \in [1..n -> DOMAIN apps] : \A i, j \in 1..n : i < j => ids[i] < ids[j]

AppsTokens(apps) ==
  LET ids == SortedIds(apps)
  IN  FlattenSeq([i \in 1..Cardinality(DOMAIN apps) |-> AppTokens(ids[i], apps[ids[i]])])

(* What a node answers about an account: its amount, the variables of each *)
(* of its applications and whether it has created assets, a field the      *)
(* parser does not know.  Keys are sorted, and omitted when the value is   *)
(* zero or empty.                                                          *)
IsAnswer(d) ==
  /\ d = [algo |-> d.algo, assets |-> d.assets, apps |-> d.apps]
  /\ d.algo \in Nat /\ d.assets \in BOOLEAN
  /\ IsFiniteSet(DOMAIN d.apps)
  /\ \A a \in DOMAIN d.apps :
       a \in Nat /\ d.apps[a] \in Seq([name : VariableNames, type : {"int", "slice"}])

Tokens(d) ==
  LET hasAlgo == d.algo # 0
      hasApps == DOMAIN d.apps # {}
      count == 2 + (IF hasAlgo THEN 1 ELSE 0) + (IF d.assets THEN 1 ELSE 0)
                 + (IF hasApps THEN 1 ELSE 0)
  IN <<MapOf(count)>>
       \o (IF hasAlgo THEN <<Str("algo"), UInt(d.algo)>> ELSE <<>>)
       \o (IF d.assets THEN <<Str("apar"), MapOf(0)>> ELSE <<>>)
       \o (IF hasApps THEN <<Str("appl"), MapOf(Cardinality(DOMAIN d.apps))>> \o AppsTokens(d.apps)
                      ELSE <<>>)
       \o <<Str("ebase"), UInt(1), Str("tsch"), MapOf(1), Str("nui"), UInt(1)>>

-----------------------------------------------------------------------------
(* The account that is filled, as account_free leaves it.                  *)
EmptyDetails ==
  [amount |-> 0, app_idx |-> 0,
   apps |-> [i \in 0..(AppsMaxCount - 1) |-> [app_id |-> 0, kv_count |-> 0]]]

(* (int32_t) v *)
AsInt32(v) == ((v + IntRange \div 2) % IntRange) - IntRange \div 2

(* The step after a key, for each step in which keys are looked at. *)
StepOfKey ==
  [ROOT |-> [algo |-> "ALGO", appl |-> "APPL", ebase |-> "EBASE", ern |-> "ERN", tsch |-> "TSCH"],
   APPL_ID |-> [hsch |-> "APP_SCH", tkv |-> "APP_KV"],
   APP_SCH |-> [nui |-> "APP_SCH_NUI", nbs |-> "APP_SCH_NBS"],
   APP_KV_VAR |-> [tt |-> "APP_KV_TYPE", tb |-> "APP_KV_SLICE", ui |-> "APP_KV_INT"],
   TSCH |-> [nui |-> "TSCH_NUI"]]

(* The step after a number, for each step in which one is expected.        *)
StepOfUInt ==
  [ALGO |-> "ROOT", EBASE |-> "ROOT", ERN |-> "ROOT", APPL |-> "APPL_ID",
   APP_KV_TYPE |-> "APP_KV_VAR", APP_KV_INT |-> "APP_KV_VAR",
   APP_SCH_NUI |-> "APP_SCH", APP_SCH_NBS |-> "APP_SCH"]

KvCount(st) == st.account.apps[st.account.app_idx].kv_count

(* A name is stored even if there is no room for it. *)
string_element(st, s) ==
  IF st.step \in DOMAIN StepOfKey /\ s \in DOMAIN StepOfKey[st.step]
    THEN [st EXCEPT !.step = StepOfKey[st.step][s]]
  ELSE IF st.step = "APP_KV"
    THEN [st EXCEPT !.step = "APP_KV_VAR", !.err = KvCount(st) >= AppsKvMaxCount]
  ELSE [st EXCEPT !.err = st.step \in {"ROOT", "APPL_ID", "APP_SCH", "APP_KV_VAR"}]

Bug_no_room_after_one_more(st) == st.step = "APPL" /\ st.account.app_idx > AppsMaxCount

NoRoom(st) ==
  \/ st.step = "APPL" /\ st.account.app_idx >= AppsMaxCount
  \/ st.step \in {"APP_KV_TYPE", "APP_KV_INT"} /\ KvCount(st) > AppsKvMaxCount

WithApp(st, app) ==
  [st EXCEPT !.account.apps[st.account.app_idx] = [app_id |-> app, kv_count |-> @.kv_count]]

uint_element(st, n) ==
  LET next == IF st.step \in DOMAIN StepOfUInt THEN [st EXCEPT !.step = StepOfUInt[@]] ELSE st
  IN CASE NoRoom(st) -> [st EXCEPT !.err = TRUE]
       [] ~NoRoom(st) /\ st.step = "ALGO" -> [next EXCEPT !.account.amount = AsInt32(n)]
       [] ~NoRoom(st) /\ st.step = "APPL" -> WithApp(next, n)
       [] OTHER -> next

WithVariable(st) ==
  [st EXCEPT !.step = "APP_KV", !.account.apps[st.account.app_idx].kv_count = @ + 1]

Bug_finish_map_skips_app(st) ==
  CASE st.step = "APP_KV_VAR" -> WithVariable(st)
    [] st.step \in {"APP_KV", "APP_SCH"} -> [st EXCEPT !.step = "APPL_ID"]
    [] OTHER -> [st EXCEPT !.step = "ROOT"]

finish_map(st) ==
  CASE st.step = "APP_KV_VAR" -> WithVariable(st)
    [] st.step \in {"APP_KV", "APP_SCH"} -> [st EXCEPT !.step = "APPL_ID"]
    [] st.step = "APPL_ID" -> [st EXCEPT !.step = "APPL", !.account.app_idx = @ + 1]
    [] OTHER -> [st EXCEPT !.step = "ROOT"]

-----------------------------------------------------------------------------
(* parse_element.  open has, for each map that is being read, how many     *)
(* keys and values are left; an error leaves none.                         *)
InMap(st) == st.open # <<>>

EndOfElement(st) ==
  IF ~InMap(st) THEN st
  ELSE [st EXCEPT !.open[Len(st.open)] = IF st.err THEN 0 ELSE @ - 1, !.err = FALSE]

LeaveMap(st) ==
  LET finished == finish_map(st)
  IN EndOfElement([finished EXCEPT !.open = Front(@)])

(* Every map whose last element has just been read is left.                *)
LeaveMaps(st) ==
  FoldLeft(LAMBDA s, level : IF InMap(s) /\ Last(s.open) = 0 THEN LeaveMap(s) ELSE s, st, st.open)

parse_element(st, token) ==
  IF ~InMap(st) THEN st
  ELSE LeaveMaps(CASE token.kind = "str" -> EndOfElement(string_element(st, token.value))
                   [] token.kind = "uint" -> EndOfElement(uint_element(st, token.value))
                   [] token.kind = "map" -> [st EXCEPT !.open = Append(@, 2 * token.value)])

(* At the end of the answer the reader has an error, which ends all maps.  *)
EndOfAnswer(st) == FoldLeft(LAMBDA s, level : finish_map(s), st, st.open)

parser_account_mpack(tokens, account) ==
  LET start == [step |-> "ROOT", open |-> <<2 * Head(tokens).value>>, err |-> FALSE, account |-> account]
  IN EndOfAnswer(FoldLeft(parse_element, start, Tail(tokens))).account

-----------------------------------------------------------------------------
HasSlice(variables) == \E i \in DOMAIN variables : variables[i].type = "slice"

(* The answers that the parser was written for.                            *)
Fits(d) ==
  /\ ~d.assets
  /\ Cardinality(DOMAIN d.apps) <= AppsMaxCount
  /\ \A a \in DOMAIN d.apps : Len(d.apps[a]) <= AppsKvMaxCount /\ ~HasSlice(d.apps[a])

(* After a byte slice the parser takes the names of variables for keys of  *)
(* the account; one of them may be that of the applications.               *)
Misleads(d) ==
  /\ \E a \in DOMAIN d.apps : HasSlice(d.apps[a])
  /\ \E a \in DOMAIN d.apps : \E i \in DOMAIN d.apps[a] : d.apps[a][i].name = "appl"

(* More variables were counted than an application has places for.         *)
Overflowed(account) == \E j \in DOMAIN account.apps : account.apps[j].kv_count > AppsKvMaxCount

=============================================================================
