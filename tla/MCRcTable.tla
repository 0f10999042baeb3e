------------------------------ MODULE MCRcTable ------------------------------
(***************************************************************************)
(* Five files: two pairs of names of which one begins or ends with the     *)
(* other, an empty file, and a file that holds a zero byte.                *)
(***************************************************************************)
EXTENDS RcTable

MCNames == {<<"a">>, <<"a", "b">>, <<"b">>, <<"o", "/", "a">>, <<"o", "/", "b">>}
MCContent ==
  [n \in MCNames |->
     CASE n = <<"a">>           -> <<>>
       [] n = <<"a", "b">>      -> <<"x", "y">>
       [] n = <<"b">>           -> <<"y">>
       [] n = <<"o", "/", "a">> -> <<"x", Nul, "y">>
       [] n = <<"o", "/", "b">> -> <<"y">>]

=============================================================================
