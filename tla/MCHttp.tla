------------------------------ MODULE MCHttp -------------------------------
(* HttpHandler on small instances: clients that send a few short requests.   *)
EXTENDS HttpHandler

SomeChars == {"/", "a", "b", "?", "=", "&"}

PathPrefixes == <<<<"/", "a", "a">>, <<"/", "a">>>>

Request(url, headers, body) ==
  [url |-> url, headers |-> headers, body |-> body, upgrade |-> FALSE, ok |-> TRUE]

Get == Request(<<"/", "a", "?", "b", "=", "a">>, <<<<<<"a", "b">>, <<"a", "b">>>>>>, <<>>)

Repeated == Request(<<"/", "a", "a">>,
                    <<<<<<"b", "a">>, <<"a">>>>, <<<<"b">>, <<>>>>, <<<<"b">>, <<"b">>>>>>, <<>>)

Post == Request(<<"/", "b">>, <<<<<<"b">>, <<"a", "a">>>>>>, <<"a", "b">>)

Bare == Request(<<"/", "a">>, <<>>, <<>>)

Upgrade == [Get EXCEPT !.upgrade = TRUE]

Bad == [Bare EXCEPT !.ok = FALSE]

\* Pairs of well-formed requests.
PairScripts == TupleOf({Get, Repeated, Post, Bare}, 2)

\* Short requests around one that is refused or that asks for an upgrade.
OddScripts == {<<Bare, Bad, Bare>>, <<Bad, Post>>, <<Upgrade, Bare>>, <<Upgrade, Upgrade>>,
               <<Upgrade, Bad>>, <<Bare, Upgrade, Bare>>}

\* Single requests with up to two parameters, whose keys and values are empty, repeat or
\* hold a separator that is none where it stands.
Params == {<<key, value>> : key \in {<<>>, <<"a">>, <<"a", "a">>, <<"?">>},
                            value \in {<<>>, <<"a">>, <<"a", "=">>, <<"=", "?", "a">>}}

Queries ==
  {<<>>} \cup UNION {{[i \in 1..n |-> <<IF i = 1 THEN "?" ELSE "&">> \o ps[i][1] \o <<"=">> \o ps[i][2]] :
                      ps \in TupleOf(Params, n)} : n \in 1..2}

UrlScripts == {<<Request(path \o FlattenSeq(query), <<>>, <<>>)>> :
                 path \in {<<"/">>, <<"/", "a", "=", "a">>, <<"/", "a", "&">>}, query \in Queries}

AllScripts == PairScripts \cup OddScripts \cup UrlScripts

OneRequest == {<<Get>>, <<Post>>}
=============================================================================
