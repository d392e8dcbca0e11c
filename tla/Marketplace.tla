----------------------------- MODULE Marketplace -----------------------------
(***************************************************************************)
(* What the shop promises about money, without stock, carts, objects or    *)
(* restarts.  An order fixes, when it is placed, what its buyer owes to    *)
(* whom.  It is settled at most once, in full, by its buyer, out of money  *)
(* the buyer has; until then it may be cancelled, and afterwards nothing   *)
(* changes it.  Balances move for no other reason than a deposit.          *)
(*                                                                         *)
(* Regular orders have no item with a negative price.  In the others an    *)
(* amount to take from a seller is not taken, so that the sellers may get  *)
(* more than the buyer pays.                                               *)
(***************************************************************************)
EXTENDS Sequences, Sums

CONSTANTS
  Buyers, Sellers,
  Dues  \* what an order may fix: functions from Sellers to amounts

VARIABLES
  balance,  \* what every buyer and seller has
  book      \* the orders, in the order they were placed

marketVars == <<balance, book>>

People == Buyers \cup Sellers

Cost(due) == SumOf(due)

MarketInit ==
  /\ balance = [x \in People |-> 0]
  /\ book = << >>

Deposit(x) ==
  /\ balance'[x] > balance[x]
  /\ balance' = [balance EXCEPT ![x] = balance'[x]]
  /\ UNCHANGED book

\* The seller's share, or at least that, and never a loss.
Receives(y, o) ==
  /\ balance'[y] >= balance[y]
  /\ balance'[y] >= balance[y] + o.due[y]
  /\ o.regular => balance'[y] = balance[y] + o.due[y]

\* The buyer's balance falls by the cost, the sellers get their shares.
Transfer(o) ==
  /\ Cost(o.due) \in 1..balance[o.buyer]
  /\ \A y \in Sellers : Receives(y, o)
  /\ balance' = [y \in People |->
                   IF y = o.buyer THEN balance[y] - Cost(o.due)
                   ELSE IF y \in Sellers THEN balance'[y]
                   ELSE balance[y]]

Order ==
  [buyer : Buyers, due : Dues, regular : BOOLEAN,
   status : {"PENDING", "PAID", "CANCELLED"}]

Place(new) ==
  /\ new.status = "PENDING"
  /\ UNCHANGED balance

PlaceAndPay(new) ==
  /\ new.status = "PAID"
  /\ Transfer(new)

Pay(i) ==
  /\ book[i].status = "PENDING"
  /\ book' = [book EXCEPT ![i].status = "PAID"]
  /\ Transfer(book[i])

\* By the buyer, one; by the passing of time, several at once.
Cancel ==
  /\ UNCHANGED balance
  /\ book' = [i \in 1..Len(book) |->
                IF book'[i] # book[i] /\ book[i].status = "PENDING"
                THEN [book[i] EXCEPT !.status = "CANCELLED"]
                ELSE book[i]]

MarketNext ==
  \/ book' = book /\ \E x \in People : Deposit(x)
  \/ /\ Len(book') > Len(book)
     /\ LET new == book'[Len(book')]
        IN  /\ book' = Append(book, new)
            /\ new \in Order
            /\ Place(new) \/ PlaceAndPay(new)
  \/ /\ Len(book') = Len(book)
     /\ Cancel \/ \E i \in 1..Len(book) : Pay(i)

MarketSpec == MarketInit /\ [][MarketNext]_marketVars

=============================================================================
