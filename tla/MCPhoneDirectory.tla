-------------------------- MODULE MCPhoneDirectory --------------------------
(* Hosts, requests and calls of the model-checking runs of PhoneDirectory.  *)
EXTENDS PhoneDirectory

Hosts == [a \in Accounts |-> IF a = "sip" THEN "example" ELSE "ring"]
\* A Ring hash has 40 characters, more than a name with a hostname.
Sizes == [u \in Uri |-> (IF u[1] = "hash" THEN 40 ELSE 3) + (IF hasHostname(u) THEN 8 ELSE 0)]
Asked == {[uri |-> <<"hash">>, ring |-> TRUE], [uri |-> <<"bob">>, ring |-> FALSE],
          [uri |-> <<"bob", "example">>, ring |-> FALSE]}
\* addCall() counts a call that is only dialled as 0 minus its start.
Counted == {[seconds |-> -3, failed |-> FALSE], [seconds |-> 1, failed |-> FALSE],
            [seconds |-> 1, failed |-> TRUE]}

\* Bound of phonedirectory: calls are added once every number is there, to
\* numbers without a person.
NumbersFirst ==
  calls > 0 => book.size = MaxNumbers /\ \A m \in Known(book) : Of(book, m).person = None
=============================================================================
