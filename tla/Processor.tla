------------------------------ MODULE Processor ------------------------------
(***************************************************************************)
(* warmup's IdempotentProcessor: accounts, and the result of every         *)
(* transaction id that has been executed.  Transfer and Deposit are        *)
(* critical sections of one mutex, each is one step; result is what the    *)
(* latest of them returned.                                                *)
(***************************************************************************)
EXTENDS Integers

CONSTANTS
  Txns,      \* transaction ids
  Accounts   \* account names

VARIABLES
  results,   \* results[x]: what is kept under transaction id x
  balances,  \* the accounts; an absent one has a balance of zero
  result     \* what the latest call returned

vars == <<results, balances, result>>

Init ==
  /\ results = [x \in Txns |-> "none"]
  /\ balances = [a \in Accounts |-> 0]
  /\ result = "none"

\* The id's result is kept and returned.
Record(x, r) ==
  /\ results' = [results EXCEPT ![x] = r]
  /\ result' = r

\* An id that has a result is not executed again.
Replay(x) ==
  /\ results[x] # "none"
  /\ result' = results[x]
  /\ UNCHANGED <<results, balances>>

\* Fault: nobody asks whether the money is there.
FaultTransfer(x, from, to, amount) ==
  \/ Replay(x)
  \/ /\ results[x] = "none"
     /\ LET paid == [balances EXCEPT ![from] = @ - amount]
        IN  balances' = [paid EXCEPT ![to] = @ + amount]
     /\ Record(x, "transferred")

\* Fault: the results are not looked at.
FaultTransferAgain(x, from, to, amount) ==
  \/ /\ balances[from] < amount
     /\ result' = "insufficient"
     /\ UNCHANGED <<results, balances>>
  \/ /\ balances[from] >= amount
     /\ LET paid == [balances EXCEPT ![from] = @ - amount]
        IN  balances' = [paid EXCEPT ![to] = @ + amount]
     /\ Record(x, "transferred")

\* Both updates read the balances as they are then: from and to may be one
\* account.  A transfer that is not covered is not recorded.
Transfer(x, from, to, amount) ==
  \/ Replay(x)
  \/ /\ results[x] = "none"
     /\ balances[from] < amount
     /\ result' = "insufficient"
     /\ UNCHANGED <<results, balances>>
  \/ /\ results[x] = "none"
     /\ balances[from] >= amount
     /\ LET paid == [balances EXCEPT ![from] = @ - amount]
        IN  balances' = [paid EXCEPT ![to] = @ + amount]
     /\ Record(x, "transferred")

\* A deposit under an id that has a result is a replay too, although its
\* comment says that it is "not idempotent".
Deposit(x, account, amount) ==
  \/ Replay(x)
  \/ /\ results[x] = "none"
     /\ balances' = [balances EXCEPT ![account] = @ + amount]
     /\ Record(x, "deposited")

=============================================================================
