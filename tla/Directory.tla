------------------------------ MODULE Directory ------------------------------
(***************************************************************************)
(* What a model directory promises the rest of the plugin, whatever its    *)
(* refreshes, retries, cache file and timers do: ModelCatalog implements   *)
(* it (packages/plugin/src/adapter/catalog.ts), and AdapterMode wires      *)
(* directories of this kind together.                                      *)
(*                                                                         *)
(* Contents are numbered by age.  A refresh may move the directory only to *)
(* content at least as new as what it found there; a refresh that ends     *)
(* tells the observer what the directory then serves; a closed directory   *)
(* begins no refresh.                                                      *)
(***************************************************************************)
EXTENDS Naturals

CONSTANT Calls   \* the refreshes that may be ongoing together

VARIABLES
  open,     \* refreshes may begin
  content,  \* what the directory serves, 0 for nothing
  error,    \* whether its last refresh went wrong
  ongoing,  \* the refreshes that have begun and not ended
  floor,    \* the content each of them found
  told      \* what the observer was told last

vars == <<open, content, error, ongoing, floor, told>>

Init ==
  /\ open = TRUE
  /\ content = 0
  /\ error = FALSE
  /\ ongoing = {}
  /\ floor = [c \in Calls |-> 0]
  /\ told = [content |-> 0, error |-> FALSE]

Begin(c) ==
  /\ open
  /\ c \notin ongoing
  /\ ongoing' = ongoing \cup {c}
  /\ floor' = [floor EXCEPT ![c] = content]
  /\ UNCHANGED <<open, content, error, told>>

\* An ongoing refresh moves the directory, or finds that it cannot.
Move(c) ==
  /\ c \in ongoing
  /\ content' \in Nat
  /\ content' = content \/ content' >= floor[c]
  /\ error' \in BOOLEAN
  /\ UNCHANGED <<open, ongoing, floor, told>>

End(c) ==
  /\ c \in ongoing
  /\ ongoing' = ongoing \ {c}
  /\ floor' = [floor EXCEPT ![c] = 0]
  /\ told' = [content |-> content, error |-> error]
  /\ UNCHANGED <<open, content, error>>

Close ==
  /\ open
  /\ open' = FALSE
  /\ UNCHANGED <<content, error, ongoing, floor, told>>

Next == Close \/ \E c \in Calls : Begin(c) \/ Move(c) \/ End(c)

Spec == Init /\ [][Next]_vars

\* Every refresh that begins ends.
RefreshesEnd == \A c \in Calls : c \in ongoing ~> c \notin ongoing

Promise == Spec /\ RefreshesEnd

=============================================================================
