---------------------------- MODULE MCArguments -----------------------------
(* Command lines and configuration files for Arguments.                     *)
EXTENDS Arguments

Address(kind, port, slash) == [kind |-> kind, port |-> port, slash |-> slash, sound |-> TRUE]
MCUrlOf == [t \in {"udp/", "udp", "eth"} |->
              CASE t = "udp/" -> Address("udp", 4841, TRUE) [] t = "udp" -> Address("udp", 4842, FALSE)
                [] OTHER -> Address("eth", 0, FALSE)]

\* "04850" is a valid port for atoi, and 0485 the first four characters.
MCNumber == [t \in {"5000", "99", "04850", "70000"} |->
               CASE t = "5000" -> 5000 [] t = "99" -> 99 [] t = "04850" -> 4850 [] OTHER -> 70000]
MCFirstFour == [t \in DOMAIN MCNumber |->
                  CASE t = "5000" -> 5000 [] t = "99" -> 99 [] t = "04850" -> 485 [] OTHER -> 7000]

\* One to three of the options, in every order.
MCOptions == {<<"-sp", "5000">>, <<"-sp", "99">>, <<"-cp", "5000">>, <<"-cp", "04850">>, <<"-cp", "70000">>, <<"-sp", "70000">>,
            <<"-f", "mine">>, <<"-f", "-df">>, <<"-df">>, <<"udp/">>, <<"udp">>, <<"eth", "eth0">>}
MCCommandLines ==
  {<<>>, <<"-h">>, <<"-sp", "5000", "-n">>, <<"-f">>, <<"eth">>}
  \cup MCOptions \cup {x \o y : x, y \in MCOptions} \cup {<<"-df">> \o x \o y : x, y \in MCOptions}

PortLine(n) == [is |-> "port", number |-> n]
UrlLine(u, indented) == [is |-> u.kind, url |-> u, indented |-> indented]
Mine == <<UrlLine(Address("udp", 6000, TRUE), FALSE), PortLine(71537)>>
MCFiles == [n \in {Default, "mine"} |->
              IF n = "mine" THEN {Missing, <<>>, Mine}
              ELSE {Missing, <<PortLine(7001)>>, <<UrlLine(Address("udp", 7000, TRUE), TRUE), PortLine(99)>>,
                    <<PortLine(7001), UrlLine(Address("udp", 7000, TRUE), FALSE), [is |-> "other"]>>}]
SlashLines == {<<"udp">>, <<"udp/">>}
SlashFiles == [n \in {Default} |-> {Missing}]
=============================================================================
