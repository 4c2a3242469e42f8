--------------------------- MODULE AccountService ---------------------------
(***************************************************************************)
(* What the account server promises: a table of accounts whose additions   *)
(* and listings take effect one at a time, each between the moment its     *)
(* request was accepted and the moment the client has the answer.  Either  *)
(* may be refused.                                                         *)
(*                                                                         *)
(* A listing sends the ids and the second column of the table.  That is    *)
(* the description where the table has just an id and a description, and   *)
(* the type in the one of create_data.sql.                                 *)
(***************************************************************************)
EXTENDS Integers, Sequences

CONSTANTS
  Requests,
  Names,      \* descriptions of accounts
  Types,      \* their types, as text
  None        \* what a request without a name has for one

VARIABLES
  accounts,   \* descriptions in the order of their ids
  column1,    \* second column of each of them
  asked,      \* what each request asks for
  answers     \* what each request is answered

Question(path, name) == [path |-> path, name |-> name]
Nothing == Question("nothing", None)
\* Only an addition looks at the form.
Questions == {Question("/addAccount", name) : name \in Names \cup {None}}
             \cup {Question("/listAccounts", None), Question("other", None)}

Answer(code, id, rows) == [code |-> code, id |-> id, rows |-> rows]
Answers == [code : {"pending", "created", "ok", "bad_request", "not_found",
                    "conflict", "error"},
            id : Nat, rows : Seq(Names \cup Types)]
Pending == Answer("pending", 0, <<>>)
Created(id) == Answer("created", id, <<>>)
Listed(rows) == Answer("ok", 0, rows)
Refusals == {Answer(c, 0, <<>>) : c \in {"bad_request", "not_found", "conflict", "error"}}

Holds(rows, name) == \E i \in DOMAIN rows : rows[i] = name

Init ==
  /\ asked = [r \in Requests |-> Nothing]
  /\ answers = [r \in Requests |-> Pending]
  /\ accounts \in Seq(Names)
  /\ \A i, j \in DOMAIN accounts : accounts[i] = accounts[j] => i = j
  /\ column1 = accounts \/ column1 \in [DOMAIN accounts -> Types]

Ask(r) ==
  /\ asked[r] = Nothing
  /\ \E q \in Questions : asked' = [asked EXCEPT ![r] = q]
  /\ UNCHANGED <<accounts, column1, answers>>

Unanswered(r) == asked[r] # Nothing /\ answers[r] = Pending

\* The answer carries the id of the row that was added.
AddAccount(r) ==
  /\ Unanswered(r)
  /\ asked[r].path = "/addAccount" /\ asked[r].name # None
  /\ ~Holds(accounts, asked[r].name)
  /\ accounts' = Append(accounts, asked[r].name)
  /\ column1' = Append(column1, asked[r].name)
  /\ answers' = [answers EXCEPT ![r] = Created(Len(accounts) + 1)]
  /\ UNCHANGED asked

ListAccounts(r) ==
  /\ Unanswered(r)
  /\ asked[r].path = "/listAccounts"
  /\ answers' = [answers EXCEPT ![r] = Listed(column1)]
  /\ UNCHANGED <<accounts, column1, asked>>

Refuse(r) ==
  /\ Unanswered(r)
  /\ \E a \in Refusals : answers' = [answers EXCEPT ![r] = a]
  /\ UNCHANGED <<accounts, column1, asked>>

\* Another process adds to the same file.
OtherProcessAdds ==
  /\ \E name \in Names, type \in Types :
       /\ ~Holds(accounts, name)
       /\ accounts' = Append(accounts, name)
       /\ \E text \in {name, type} : column1' = Append(column1, text)
  /\ UNCHANGED <<asked, answers>>

Next ==
  \/ \E r \in Requests : Ask(r) \/ AddAccount(r) \/ ListAccounts(r) \/ Refuse(r)
  \/ OtherProcessAdds

vars == <<accounts, column1, asked, answers>>
Spec == Init /\ [][Next]_vars
=============================================================================
