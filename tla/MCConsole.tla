------------------------------ MODULE MCConsole -----------------------------
(***************************************************************************)
(* Console with two-bit addresses.  Hosts: nothing, an address and all but *)
(* a net; ports: nothing, "any", a number that fits and one of five digits *)
(* that loses the last.                                                    *)
(***************************************************************************)
EXTENDS Console

MCHost == {EmptyText, << <<"addr", <<0, 1>> >> >>, << <<"not">>, <<"net", <<1, 1>>, 1>> >>}
MCPort == {EmptyText, <<"any">>, <<"port", 443>>, <<"port", 31999>>}

=============================================================================
