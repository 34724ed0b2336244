----------------------------- MODULE MCTerminal -----------------------------
(* A screen of three rows of three, so that lines wrap and scroll, and     *)
(* lines of up to six characters: three words, of which two fit argv.      *)
EXTENDS Terminal, TLC

MCScancodeMap == <<"nul", "a", Space, Nl, Bs, Tab>>
\* Every mapped code, one beyond the map and one break code.
MCScanCodes == 0 .. 7
MCPrintable == {"a", Space}
MCChars == {Nl, Bs, Tab, Space, "a", "d", "e", "n", "t", "u", "w", "$", ">", "?", "!"}
MCWelcome == <<"w", Nl>>
MCPrompt == <<"$", ">">>
MCHandlers ==
  <<"a">> :> "echo" @@ <<"a", "a">> :> "ui" @@
  <<"a", "a", "a">> :> "exit" @@ <<"a", "a", "a", "a">> :> "other" @@
  <<"a", "a", "a", "a", "a">> :> "clear"
MCUiOn == <<"a">>
MCUiOff == <<"a", "a">>
MCUiTitle == <<"t">>
MCUiStatus == <<"n", "d">>
MCUiContent == <<"e">>
MCOutputs == {<<>>, <<"a", Tab, "a">>}
MCLeftovers == {<<>>, <<"a">>, <<Tab, "a", Space, "a">>}
=============================================================================
