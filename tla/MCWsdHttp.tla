----------------------------- MODULE MCWsdHttp -----------------------------
(***************************************************************************)
(* Instances of WsdHttp for TLC: one peer with a request of every sort, a  *)
(* second one on TCP and one on UDP, which come before, between or after.  *)
(***************************************************************************)
EXTENDS WsdHttp

CONSTANTS a, b, u

P(k, v) == [kind |-> k, val |-> v]
K(k)    == P(k, 0)

Post(lines, body) == << K("post") >> \o lines \o << K("blank") >> \o body
Type == K("type")
Get1 == << K("Get"), P("id", 1) >>

Requests ==
    { Post(<< P("length", 2) >>, Get1),
      Post(<< P("length", 9), P("length", 2) >>, << P("id", 1), K("Resolve") >>),
      Post(<< P("length", 1) >>, Get1),
      Post(<< Type, P("length", 9) >>, << >>),
      Post(<< K("bad type") >>, << >>),
      Post(<< K("header") >>, << >>),
      << K("post"), P("length", 2), K("header") >>,
      << K("Probe"), P("id", 1) >>,
      << K("other action"), P("id", 1), K("Get") >> }
    \cup { << K(l) >> : l \in {"post path", "post version"} }

\* One octet more than there is room for.
LongDatagram == << K("post"), K("Get"), P("id", 3), K("text"), K("text"), K("text") >>

MCRequest == [p \in Peer |->
    IF p = a THEN Requests
    ELSE IF p = b THEN { << K("Probe") >> }
    ELSE { LongDatagram }]
=============================================================================
