---------------------------- MODULE HttpRequest ----------------------------
(***************************************************************************)
(* HTTPRequest: what the codec fills in while a request is parsed and the  *)
(* application reads.  Strings are sequences of characters, and a std::map *)
(* is a function from its keys.                                            *)
(***************************************************************************)
EXTENDS Naturals, Sequences, SequencesExt

CONSTANT Char   \* the characters strings are made of

ASSUME CharAssumption == {"?", "=", "&"} \subseteq Char

String == Seq(Char)

EmptyMap == [k \in {} |-> <<>>]

IsMap(m) == DOMAIN m \subseteq String /\ \A k \in DOMAIN m : m[k] \in String

NewRequest ==
  [url_ |-> <<>>, headers_map_ |-> EmptyMap, method_get_params_ |-> EmptyMap,
   body_ |-> <<>>, is_upgrade_ |-> FALSE]

\* map::insert() leaves a name that is there as it is.
AddHeader(request, name, value) ==
  [request EXCEPT !.headers_map_ = @ @@ (name :> value)]

SetUrl(request, url) == [request EXCEPT !.url_ = url]

SetBody(request, body) == [request EXCEPT !.body_ = body]

SetUpgrade(request) == [request EXCEPT !.is_upgrade_ = TRUE]

\* The smallest index of string from first on that has one of the characters,
\* or the one after its end.
FindFrom(string, first, chars) ==
  Min({i \in first..Len(string) : string[i] \in chars} \cup {Len(string) + 1})

\* Mutant: a value ends at the next '=' too.
MutGetParamsFrom(url) ==
  LET n == Len(url)
      from[i \in 1..(n + 2)] ==
        LET eq == FindFrom(url, i, {"="})
            end == FindFrom(url, eq + 1, {"&", "=", " "})
        IN  IF eq > n THEN <<>>
            ELSE <<<<SubSeq(url, i, eq - 1), SubSeq(url, eq + 1, end - 1)>>>> \o from[end + 1]
  IN  from[FindFrom(url, 1, {"?"}) + 1]

\* The loop of ParseUrl(): the key up to the next '=', whatever is before it, and
\* the value up to the next '&' or ' '.
GetParamsFrom(url) ==
  LET n == Len(url)
      from[i \in 1..(n + 2)] ==
        LET eq == FindFrom(url, i, {"="})
            end == FindFrom(url, eq + 1, {"&", " "})
        IN  IF eq > n THEN <<>>
            ELSE <<<<SubSeq(url, i, eq - 1), SubSeq(url, eq + 1, end - 1)>>>> \o from[end + 1]
  IN  from[FindFrom(url, 1, {"?"}) + 1]

\* method_get_params_[key] = value, one after the other.
Assigned(params) ==
  [k \in {params[j][1] : j \in DOMAIN params} |->
     params[Max({j \in DOMAIN params : params[j][1] = k})][2]]

ParseUrl(request) ==
  [request EXCEPT !.method_get_params_ = Assigned(GetParamsFrom(request.url_)) @@ @]

\* body_ is left as it is.
CleanUp(request) == [NewRequest EXCEPT !.body_ = request.body_]
=============================================================================
