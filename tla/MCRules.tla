------------------------------- MODULE MCRules -------------------------------
(* Constants for model checking Rules.  PathPrefix has a value with          *)
(* parentheses, Header one with a comma and an operator; one Host has two    *)
(* arguments, Nope is no matcher.                                            *)
EXTENDS Rules

Call(name, args) == [name |-> name, args |-> args]

MCLetters == {"Host", "PathPrefix", "Path", "Method", "Header", "ClientIP", "Nope",
              "a", "b", "A", "B"}
MCDigits == {"1"}

MCOctets == ("10.0.0.1" :> <<10, 0, 0, 1>>) @@ ("10.0.0.0" :> <<10, 0, 0, 0>>)
MCOnes == ("8" :> 8) @@ ("40" :> 40)

HostA == Call("Host", << <<"A">> >>)
Prefix == Call("PathPrefix", << <<"/", "(", ")">> >>)
PathA == Call("Path", << <<"/", "(", ")">> >>)
Header == Call("Header", << <<"B">>, <<"a", ",", "&", "&", "b">> >>)
Method == Call("Method", << <<"a">> >>)
Single == Call("ClientIP", << <<"10.0.0.1">> >>)
Range8 == Call("ClientIP", << <<"10.0.0.0", "/", "8">> >>)
Root == Call("PathPrefix", << <<"/">> >>)

\* Wrong calls, and calls with parentheses that do not balance.
Range40 == Call("ClientIP", << <<"10.0.0.0", "/", "40">> >>)
TwoHosts == Call("Host", << <<"a">>, <<"b">> >>)
Unknown == Call("Nope", << <<"a">> >>)
OpenPath == Call("Path", << <<"(">> >>)

MCCalls == {HostA, Prefix, PathA, Header, Method, Root, Range8, Single, TwoHosts,
            Unknown, Range40, OpenPath}
MCLaterCalls == {PathA, Single}
MCStrays == { <<"/">>, <<"Host">>, <<"b", "1">> }

Req(host, path, method, header, addr) ==
  [host |-> host, path |-> path, method |-> method, header |-> header, addr |-> addr]

WithPort == <<"a", ":", "1">>
Value == <<"b">> :> <<"a", ",", "&", "&", "b">>
NoHeader == [k \in {} |-> <<>>]

\* Every two matchers differ on one of them.
MCRequests ==
  << Req(WithPort, <<"/", "(", ")">>, <<"A">>, Value, "10.0.0.1"),
     Req(WithPort, <<"/", "(", ")">>, <<"B">>, NoHeader, "10.0.0.0"),
     Req(WithPort, <<"/", "(", ")", "a">>, <<"A">>, NoHeader, "10.0.0.1"),
     Req(WithPort, <<"/">>, <<"A">>, Value, ""),
     Req(<<"b">>, <<"/", "(", ")">>, <<"B">>, Value, "10.0.0.1"),
     Req(<<"b">>, <<"/", "(", ")", "a">>, <<"A">>, Value, "10.0.0.0"),
     Req(<<"b">>, <<"/">>, <<"B">>, NoHeader, "10.0.0.0"),
     Req(<<"b">>, <<"a">>, <<"A">>, NoHeader, "10.0.0.1") >>

===============================================================================
