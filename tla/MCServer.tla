------------------------------- MODULE MCServer -------------------------------
(* Two connections; requests that are read, written, streamed, refused for *)
(* every reason, and stopped anywhere.                                     *)
EXTENDS Server, TLC

CONSTANTS alone, other

Ask(verb, route) == [kind |-> "request", verb |-> verb, route |-> route]
Length(n) == [kind |-> "length", bytes |-> n]
Line(kind) == [kind |-> kind]

Asked ==
    {<<Ask("GET", "page"), Line("end")>>,
     <<Ask("HEAD", "page"), Line("end")>>,
     <<Ask("GET", "events"), Line("end")>>,
     <<Ask("PUT", "write"), Line("end")>>,
     <<Ask("GET", "nowhere"), Line("end")>>,
     <<Ask("POST", "write"), Length(1), Length(2), Line("end"), Line("byte")>>,
     <<Ask("POST", "write"), Length(2), Line("end")>>,
     <<Ask("POST", "write"), Line("garbled"), Line("end")>>,
     <<Ask("GET", "page"), Line("header"), Line("header"), Line("header")>>,
     <<Ask("GET", "page"), Line("colonless")>>,
     <<Ask("GET", "page"), Line("binary")>>,
     <<Line("wordless")>>}

MCRequests ==
    other :> {<<Ask("GET", "page"), Line("end")>>}
    @@ alone :> Asked
===============================================================================
