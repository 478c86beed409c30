---------------------------- MODULE MCScriptRun ----------------------------
(***************************************************************************)
(* A small instance of ScriptRun: a device that sends a and b in pieces,   *)
(* one of them longer than the window, and scripts that wait for ab or for *)
(* b, write at set times, or ask for too much.                             *)
(***************************************************************************)
EXTENDS ScriptRun

MCLetters == {"a", "b"}
MCChunks  == {<<"a">>, <<"b", "a", "b">>}

Rule(w, rep, m, d) == [word |-> w, repeat |-> rep, max |-> m, delay |-> d]
Every(at, i, n)    == [at |-> at, interval |-> i, count |-> n]
Ask(ws, rs, t)     == [writes |-> ws, rules |-> rs, timeout |-> t]

MCScripts == {
  Ask(<<Every(0, 0, 0)>>, <<Rule(<<"a", "b">>, TRUE, 0, 0)>>, 1),
  Ask(<<>>, <<Rule(<<"a", "b">>, FALSE, 0, 1), Rule(<<"b">>, TRUE, 3, 0)>>, 2),
  Ask(<<Every(0, 1, 2)>>, <<>>, 2),
  Ask(<<>>, <<Rule(<<"b">>, TRUE, 0, 1)>>, 1),
  Ask(<<Every(1, 1, 3)>>, <<>>, 1),
  Ask(<<Every(0, 2, 2), Every(2, 0, 0)>>, <<>>, 1),
  Ask(<<>>, <<Rule(<<>>, FALSE, 0, 0)>>, 1),
  Ask(<<Every(0, 0, 0)>>, <<>>, 3),
  Ask(<<>>, <<>>, 1)}
=============================================================================
