------------------------------ MODULE MCHttpdFs ------------------------------
(***************************************************************************)
(* A page, a page one level down and a resource beside the directory; the  *)
(* server spells them with and without extra slashes.                      *)
(***************************************************************************)
EXTENDS HttpdFs

MCNames == {<<"o", "/", "a">>, <<"o", "/", "b", "/", "a">>, <<"a">>}
MCContent ==
  [n \in MCNames |->
     CASE n = <<"a">>                     -> <<"k">>
       [] n = <<"o", "/", "a">>           -> <<"x", "y">>
       [] n = <<"o", "/", "b", "/", "a">> -> <<"z">>]
MCDir == <<"o", "/">>
MCRequests ==
  {<<"a">>, <<"/", "a">>, <<"/", "/", "a">>, <<"b", "/", "/", "a">>,
   <<"/", "b", "/", "a">>, <<"a", "/">>, <<"/">>, <<"b">>}

=============================================================================
