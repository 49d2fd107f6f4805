------------------------------ MODULE MCProxy -------------------------------
(* Results: a failure, one row of two columns, two rows of one, one NULL.  *)
EXTENDS Proxy

MCResults == {[columns |-> <<>>, rows |-> <<>>],
              [columns |-> <<1, 3>>, rows |-> << <<0, 2>> >>],
              [columns |-> <<2>>, rows |-> << <<5>>, <<0>> >>]}
=============================================================================
