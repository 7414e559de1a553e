------------------------------- MODULE MCHttp -------------------------------
(***************************************************************************)
(* Http with three slots for four names, hosts short and long, paths on    *)
(* both sides of every test of http_request_get_string, and a header       *)
(* buffer small enough to get beyond the largest int.                      *)
(***************************************************************************)
EXTENDS Http, TLC

CONSTANTS host, agent, other, third, near, far, text

MCNames  == <<host, agent>>
MCLength == host :> 4 @@ agent :> 10 @@ other :> 5 @@ third :> 0
            @@ near :> 9 @@ far :> 980 @@ text :> 35
MCPaths  == {1, 931, 932, 992, 993, 5000}
=============================================================================
