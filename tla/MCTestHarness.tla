--------------------------- MODULE MCTestHarness ---------------------------
(* TestHarness over requests that differ in status, in keys or in nesting:  *)
(* {a} and {a: {b}} have different keys, {a: {b}} and {a, b} the same.      *)
EXTENDS TestHarness

flat == {<<"a">>, <<"b">>}
nested == {<<"a">>, <<"a", "b">>}

Recorded(status, contentType, request, response) ==
  [url |-> "/boilerplate/base/", method |-> "POST", status |-> status,
   contentType |-> contentType, request |-> request, response |-> response]

data == {Recorded(200, "application/json", {<<"a">>}, flat),
         Recorded(200, "application/json", {<<"a">>}, nested),
         Recorded(409, "application/json", {}, {<<"a">>}),
         Recorded(409, "text/plain", {}, nested)}
=============================================================================
