------------------------------ MODULE MCConfig ------------------------------
(***************************************************************************)
(* Config over files of a few lines: every command with a valid line, the  *)
(* bounds of the numbers on both sides, each way a line can be refused.    *)
(***************************************************************************)
EXTENDS Config

Line(cmd, args) == [cmd |-> cmd, args |-> args]

MCLower(text) ==
  CASE text \in {"GET", "Get"}   -> "get"
    [] text \in {"POST", "Post"} -> "post"
    [] text = "OPTIONS"          -> "options"
    [] text = "STATIC"           -> "static"
    [] text = "DCGI"             -> "dcgi"
    [] text = "INTERN"           -> "intern"
    [] text = "DIR"              -> "dir"
    [] text = "TRUE"             -> "true"
    [] OTHER                     -> text

MCAtoi(text) ==
  CASE text = "65535"    -> 65535
    [] text = "65536"    -> 65536
    [] text = "-1"       -> -1
    [] text = "31535999" -> 31535999
    [] text = "31536000" -> 31536000
    [] OTHER             -> 0

Attributes ==
  { Line("listen-address", <<"a">>), Line("listen-address", <<>>),
    Line("listen-port", <<"65535">>), Line("listen-port", <<"65536">>),
    Line("listen-port", <<"0">>), Line("max-pending", <<"-1">>),
    Line("cache-time", <<"0">>), Line("cache-time", <<"-1">>),
    Line("cache-time", <<"31535999">>), Line("cache-time", <<"31536000">>),
    Line("preload", <<"TRUE">>), Line("preload", <<"0">>),
    Line("ignore-case", <<"false">>), Line("ignore-case", <<"1">>),
    Line("ignore-case", <<"a">>) }
RouteLines ==
  { Line("GET", <<"a", "STATIC", "f">>), Line("get", <<"a", "dcgi", "f">>),
    Line("Post", <<"a", "DCGI", "f">>), Line("POST", <<"b", "DIR", "f">>),
    Line("GET", <<"a", "f", "f">>) }
CorsLines ==
  { Line("cors", <<"get", "a">>), Line("CORS", <<"POST", "a">>),
    Line("cors", <<"GET">>), Line("cors", <<>>), Line("Cors", <<"OPTIONS", "a">>),
    Line("cors", <<"GET", "b", "b">>) }
OtherLines ==
  { Line("abort", <<>>), Line("language", <<"a">>), Line("case-ignore", <<"TRUE">>),
    Line(NullText, <<>>) }

MCCommands == Attributes \cup RouteLines \cup CorsLines \cup OtherLines
MCTexts ==
  {"127.0.0.1"} \cup UNION { { line.args[i] : i \in DOMAIN line.args } : line \in MCCommands }
=============================================================================
