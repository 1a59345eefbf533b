------------------------------ MODULE Customers ------------------------------
(***************************************************************************)
(* Customers and the books that name them (modules/customers, and the      *)
(* customer a sale or a payment is recorded against): adding, merging a    *)
(* duplicate into the one who stays, and removing one added by mistake.    *)
(* Of the contact details one is kept, the phone; price lists are in       *)
(* Lists, what a customer owes in detail in Receivables.                   *)
(***************************************************************************)
EXTENDS Desk, Integers, FiniteSetsExt, Functions

CONSTANTS
  Customers,
  Books,       \* invoices and payments, each with what it adds to what is owed
  Amount,
  MaxMerges    \* bound: merges

\* What a handler goes on with: the row to write, what to merge, or whom to remove.
BookAsks == [kind : {"book"}, book : Books, customer : Customers]
MergeAsks == [kind : {"merge"}, from : Customers, into : Customers, phone : BOOLEAN]
RemoveAsks == [kind : {"remove"}, customer : Customers]
CustomerAsks == BookAsks \cup MergeAsks \cup RemoveAsks

ASSUME CustomersAssumption ==
  /\ IsFiniteSet(Books) /\ Amount \in [Books -> {-1, 1}] /\ MaxMerges \in Nat
  /\ None \notin Customers /\ None \notin CustomerAsks

VARIABLES
  customer,    \* of each: whether live, whom it was merged into, and whether it has a phone
  named,       \* the customer each invoice and payment names, or None while unrecorded
  merges

customersVars == <<customer, named, merges>>

CustomersTypeOK ==
  /\ customer \in [Customers -> [live : BOOLEAN, into : Customers \cup {None}, phone : BOOLEAN]]
  /\ named \in [Books -> Customers \cup {None}] /\ merges \in 0..MaxMerges

CustomersInit ==
  /\ customer \in [Customers -> [live : {TRUE}, into : {None}, phone : BOOLEAN]]
  /\ named = [b \in Books |-> None] /\ merges = 0

BooksOf(c) == {b \in Books : named[b] = c}
Owed(c) == SumFunctionOnSet(Amount, BooksOf(c))

\* Bug: a removed customer is found.
FoundRemoved(c) == TRUE

Found(c) == customer[c].live

-----------------------------------------------------------------------------
\* A sale or a payment: the customer is looked up, and the row written later.
LookUpCustomer(r, b, c) ==
  /\ named[b] = None /\ Found(c)
  /\ \A q \in Busy : ~(Asked(q, "book") /\ doing[q].book = b)
  /\ Take(r, [kind |-> "book", book |-> b, customer |-> c])
  /\ UNCHANGED customersVars

RecordBook(r) ==
  /\ Asked(r, "book")
  /\ named' = [named EXCEPT ![doing[r].book] = doing[r].customer]
  /\ Finish(r) /\ UNCHANGED <<customer, merges>>

\* merge, up to its transaction: both are found, and what the kept one lacks is read.
ReadToMerge(r, d, k) ==
  /\ d # k /\ Found(d) /\ Found(k) /\ merges < MaxMerges
  /\ \A q \in Busy : ~Asked(q, "merge") \/ merges + 1 < MaxMerges
  /\ Take(r, [kind |-> "merge", from |-> d, into |-> k,
              phone |-> ~customer[k].phone /\ customer[d].phone])
  /\ UNCHANGED customersVars

\* Bug: only the invoices are moved.
MoveInvoicesOnly(d, k) ==
  [b \in Books |-> IF named[b] = d /\ Amount[b] > 0 THEN k ELSE named[b]]

\* Every invoice and payment of the duplicate goes to the kept customer.
Moved(d, k) == [b \in Books |-> IF named[b] = d THEN k ELSE named[b]]

Merge(r) ==
  /\ Asked(r, "merge")
  /\ LET d == doing[r].from  k == doing[r].into
     IN  /\ named' = Moved(d, k)
         /\ customer' = [customer EXCEPT ![k].phone = @ \/ doing[r].phone,
                                         ![d].live = FALSE, ![d].into = k]
  /\ merges' = merges + 1 /\ Finish(r)

\* Bug: only the payments are counted.
NoPayments(c) == \A b \in Books : named[b] = c => Amount[b] > 0

NoBooks(c) == \A b \in Books : named[b] # c

ReadToRemove(r, c) ==
  /\ Found(c) /\ NoBooks(c)
  /\ Take(r, [kind |-> "remove", customer |-> c])
  /\ UNCHANGED customersVars

RemoveCustomer(r) ==
  /\ Asked(r, "remove")
  /\ customer' = [customer EXCEPT ![doing[r].customer].live = FALSE]
  /\ Finish(r) /\ UNCHANGED <<named, merges>>

CustomersNext ==
  \E r \in Requests :
    \/ \E b \in Books, c \in Customers : LookUpCustomer(r, b, c)
    \/ \E d, k \in Customers : ReadToMerge(r, d, k)
    \/ \E c \in Customers : ReadToRemove(r, c)
    \/ RecordBook(r) \/ Merge(r) \/ RemoveCustomer(r)

CustomersSpec == DeskInit /\ CustomersInit /\ [][CustomersNext]_<<deskVars, customersVars>>

-----------------------------------------------------------------------------
(* Properties. *)

\* What a customer who is no longer on the list owes would be on no statement: while
\* requests do not overlap, every invoice and payment names one who is.
BooksNameTheLiving ==
  overlapped \/ \A b \in Books : named[b] # None => customer[named[b]].live

\* A merge adds what the duplicate owes to what the kept customer owes, whatever was
\* recorded or merged while it was being decided, and nobody else's account moves.
MergeAddsUp ==
  \A r \in Requests, d, k \in Customers :
    Asked(r, "merge") /\ <<d, k>> = <<doing[r].from, doing[r].into>> /\ merges' # merges /\ doing'[r] = None =>
      /\ Owed(k)' = Owed(k) + Owed(d) /\ Owed(d)' = 0
      /\ \A c \in Customers \ {d, k} : Owed(c)' = Owed(c)

\* Following a merged customer to the one kept, and on, ends at somebody: no customers
\* were all merged into one another, while requests do not overlap.
MergesLeadSomewhere ==
  overlapped \/ \A circle \in SUBSET Customers :
    circle # {} => \E c \in circle : customer[c].into \notin circle

\* Every account is somebody's, and a merge carries all of it.
AccountsFollowMerges ==
  [][BooksNameTheLiving' /\ MergesLeadSomewhere' /\ MergeAddsUp]_<<deskVars, customersVars>>
=============================================================================
