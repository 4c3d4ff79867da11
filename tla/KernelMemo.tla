----------------------------- MODULE KernelMemo -----------------------------
(***************************************************************************)
(* What the JIT promises the passes that call it: a memo table.  The first *)
(* answer that is made for a text is recorded for good, a null one         *)
(* included, and every later request for that text is given it; only a     *)
(* request that gave up before anything was made leaves no record. A       *)
(* client that wants no code, and a request for what is no function, are   *)
(* answered null without a look at the table.                              *)
(***************************************************************************)
CONSTANTS
  Client, Text,
  CodeOf,           \* [Text -> the code that may be made from it]
  NullInfo, Absent

VARIABLES
  memo,
  wants,            \* the clients that want code, never changed
  status, text, answer

memoVars == <<memo, wants, status, text, answer>>

MemoInit ==
  /\ memo = [x \in Text |-> Absent]
  /\ wants \in [Client -> BOOLEAN]
  /\ status = [c \in Client |-> "idle"]
  /\ text \in [Client -> Text]
  /\ answer = [c \in Client |-> NullInfo]

Ask(c) ==
  /\ status[c] = "idle" /\ wants[c]
  /\ status' = [status EXCEPT ![c] = "waiting"]
  /\ \E x \in Text : text' = [text EXCEPT ![c] = x]
  /\ answer' = [answer EXCEPT ![c] = NullInfo]
  /\ UNCHANGED <<memo, wants>>

Refuse(c) ==
  /\ status[c] = "idle"
  /\ answer' = [answer EXCEPT ![c] = NullInfo]
  /\ UNCHANGED <<memo, wants, status, text>>

Answered(c, i) ==
  /\ status[c] = "waiting"
  /\ status' = [status EXCEPT ![c] = "answered"]
  /\ answer' = [answer EXCEPT ![c] = i]
  /\ UNCHANGED <<wants, text>>

Recall(c) ==
  /\ memo[text[c]] # Absent
  /\ Answered(c, memo[text[c]])
  /\ UNCHANGED memo

Make(c, i) ==
  /\ memo[text[c]] = Absent
  /\ i \in CodeOf[text[c]] \union {NullInfo}
  /\ memo' = [memo EXCEPT ![text[c]] = i]
  /\ Answered(c, i)

GiveUp(c) ==
  /\ memo[text[c]] = Absent
  /\ Answered(c, NullInfo)
  /\ UNCHANGED memo

Return(c) ==
  /\ status[c] = "answered"
  /\ status' = [status EXCEPT ![c] = "idle"]
  /\ UNCHANGED <<memo, wants, text, answer>>

MemoNext ==
  \E c \in Client :
    Ask(c) \/ Refuse(c) \/ Recall(c) \/ Make(c, answer'[c]) \/ GiveUp(c) \/ Return(c)

MemoSpec == MemoInit /\ [][MemoNext]_memoVars
=============================================================================
