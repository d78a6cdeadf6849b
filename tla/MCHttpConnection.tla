-------------------------- MODULE MCHttpConnection --------------------------
(***************************************************************************)
(* Requests of every kind for TLC, with ranges inside the file, past its   *)
(* end, open-ended, and counted from its end.                              *)
(***************************************************************************)
EXTENDS HttpConnection

To(target, outcome) == [NoRequest EXCEPT !.target = target, !.outcome = outcome]

Content(method, a, b) ==
    [target |-> "content", method |-> method, first |-> a, last |-> b, outcome |-> "ok"]

SomeRequests ==
    {To("", "ok"), To("missing", "ok"), To("upnp", "ok"), To("upnp", "error"),
     To("upnp", "throws"), To("content", "error"),
     Content("GET", Absent, Absent), Content("HEAD", Absent, Absent),
     Content("GET", 1, 3), Content("GET", 2, Absent), Content("GET", 1, 6),
     Content("GET", Absent, 2)}

HeadRequests ==
    {[req EXCEPT !.method = "HEAD"] :
        req \in {r \in SomeRequests : r.target = "content"} \union {To("", "ok"), To("missing", "ok")}}

SomeSizes == {0, 3, 5}
=============================================================================
