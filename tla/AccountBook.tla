---------------------------- MODULE AccountBook ----------------------------
(***************************************************************************)
(* What user administration promises about the accounts, as if every       *)
(* operation took place at one moment: its guards speak of the account as  *)
(* it is when it is changed, and it changes what it names and nothing      *)
(* else.  An account on which two operations overlapped is disputed, and   *)
(* nothing more is said of it; only an account that may be managed can     *)
(* become so.  UserAdmin implements it with book <- Book.                  *)
(***************************************************************************)
CONSTANTS Account, Founder, Role, Address, FounderAddress,
          NoAddress  \* the address of a removed account

VARIABLE book        \* account -> what is known of it

Known(a) == book[a].status = "known"

Manageable(a) == Known(a) /\ ~book[a].removed /\ book[a].role # "admin"

Row(r, on, gone, address) ==
  [status |-> "known", role |-> r, active |-> on, removed |-> gone, address |-> address]

Enter(a, row) == book' = [book EXCEPT ![a] = row]

BookInit ==
  book = [a \in Account |-> IF a = Founder THEN Row("admin", TRUE, FALSE, FounderAddress)
                            ELSE [status |-> "absent"]]

Invite(a, r, address) ==
  /\ book[a].status = "absent"
  /\ \A b \in Account : Known(b) => book[b].address # address
  /\ Enter(a, Row(r, TRUE, FALSE, address))

SetRole(a, r) ==
  /\ Manageable(a)
  /\ Enter(a, Row(r, book[a].active, FALSE, book[a].address))

SetActive(a, on) ==
  /\ Manageable(a)
  /\ Enter(a, Row(book[a].role, on, FALSE, book[a].address))

(* The address is free again.                                              *)
Remove(a) ==
  /\ Manageable(a)
  /\ Enter(a, Row(book[a].role, FALSE, TRUE, NoAddress))

Dispute(a) ==
  /\ Manageable(a)
  /\ Enter(a, [status |-> "disputed"])

BookNext ==
  \E a \in Account :
    \/ \E r \in Role, address \in Address : Invite(a, r, address)
    \/ \E r \in Role : SetRole(a, r)
    \/ \E on \in BOOLEAN : SetActive(a, on)
    \/ Remove(a)
    \/ Dispute(a)

BookSpec == BookInit /\ [][BookNext]_book
=============================================================================
