------------------------------- MODULE MCHttp -------------------------------
(* Requests for Http: with and without query and body, and chunks whose data *)
(* looks like the end of the message.                                        *)
EXTENDS Http

Req(path, query, headers, coding, body, trailer) ==
    [path |-> path, query |-> query, headers |-> headers, coding |-> coding,
     body |-> body, trailer |-> trailer]

PlainRequests ==
    {Req("/a", "?q", <<"Keep-Alive">>, "none", <<>>, FALSE),
     Req("/b", "", <<"Keep-Alive">>, "length", <<<<"x", "r", "n">>>>, FALSE),
     Req("/e", "", <<"Upgrade">>, "none", <<>>, FALSE)}

AllRequests ==
    PlainRequests \cup
    {Req("/c", "", <<"Keep-Alive", "Cookie">>, "chunked",
         <<<<"x", "r", "n", "0", "r", "n", "r", "n">>, <<"x">>>>, FALSE),
     Req("/d", "", <<>>, "chunked", <<<<"0", "r", "n">>>>, TRUE)}
=============================================================================
