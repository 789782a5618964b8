----------------------------- MODULE MCConsole ------------------------------
(* Lines of commands for Console: every command with its keys given, taken  *)
(* from the selection, missing, or of nodes that are not there.             *)
EXTENDS Console

W(token) == <<token>>

MCNumber ==
  [t \in {"1", "2", "100", "250", "1000", "2000", "65536", "65537"} |->
     CASE t = "1" -> 1 [] t = "2" -> 2 [] t = "100" -> 100 [] t = "250" -> 250
       [] t = "1000" -> 1000 [] t = "2000" -> 2000
       [] t = "65536" -> 65536 [] OTHER -> 65537]
  @@ [t \in {"add", "rm", "ch", "wg", "ds", "fd", "all", "port", "byte", "string", "wrt", "wrtstr",
             "on", "off", "intv", "-n=2", "-n=40000", "'ab'", "'a'", "foo", "exit", "restart", "show", "help", "clear", "cb"} |-> 0]
MCAmount == ("-n=2" :> 2) @@ ("-n=40000" :> 40000)
MCQuoted == ("'ab'" :> 2) @@ ("'a'" :> 1)
MCTypeOf == "byte" :> "byte"

Adding == {
  <<"add", "ch", "1000">>,
  <<"add", "ch", "1", "1000", "2", "wg", "-n=2">>,
  <<"add", "ch", "2000", "wg", "ds", "byte">>,
  <<"add", "wg", "-n=40000", "1", "1">>,
  <<"add", "wg", "1", "2", "ds", "-n=2", "1", "2", "1">>,
  <<"add", "ds">>,
  <<"add", "byte", "1", "1", "1", "2", "1", "1">>,
  <<"add", "byte", "-n=2">> }

Strings == {
  <<"add", "string", "'ab'">>,
  <<"add", "string", "'a'", "1", "1", "byte">>,
  <<"'a'">>,
  <<"wrtstr", "'ab'", "1", "1", "1", "2">>,
  <<"'a'", "1", "ch", "1">> }

Removing == {
  <<"rm", "ch", "2", "1">>,
  <<"rm", "wg", "1", "1", "ds">>,
  <<"rm", "wg">>,
  <<"rm", "ds", "1", "1", "1", "foo">>,
  <<"rm", "fd", "1", "1", "1", "1", "fd">>,
  <<"rm", "all", "1", "ch">> }

Selecting == {
  <<"ch", "1", "wg", "1", "ds", "1", "fd", "1">>,
  <<"ch", "65537", "wg", "2">>,
  <<"show", "ds", "2", "cb", "fd">> }

Configuring == {
  <<"on", "1", "1">>,
  <<"off", "foo", "1", "all">>,
  <<"off", "ch", "1", "65536", "2">>,
  <<"on", "port", "2000", "1">>,
  <<"intv", "250">>,
  <<"intv", "250", "ch", "1", "65536", "2">>,
  <<"intv", "all", "250", "off", "all">>,
  <<"wrt", "1", "2", "1", "1", "1">>,
  <<"wrt", "1", "foo", "wrt">> }

LastLines == {<<"exit">>, <<"restart">>}

MCLines == Adding \cup Strings \cup Removing \cup Selecting \cup Configuring \cup LastLines

\* Lines of several commands the help gives the form of, about nodes that are there.
Usage == {
  <<"add", "ch", "1000", "wg", "on", "1", "1">>,
  <<"add", "ch", "1000", "wg", "off", "all", "wg", "1">>,
  <<"add", "ch", "1000", "wg", "off", "1", "1", "intv", "all", "250">> }
=============================================================================
