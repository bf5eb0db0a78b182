------------------------------- MODULE HttpUrl -------------------------------
(***************************************************************************)
(* The character classes of http_parser and its URL parser:                *)
(* parse_url_char(), which http_parser_execute() also uses to validate the *)
(* request line, http_parse_host() and http_parser_parse_url().            *)
(*                                                                         *)
(* A character is a one-character string; "SP", "HT", "CR", "LF", "FF",    *)
(* "NUL", "DEL" and "BQ" (the grave accent) are spelled out.  A text is a  *)
(* sequence of characters.  The build leaves HTTP_PARSER_STRICT at 1, so   *)
(* the strict classes are modelled.                                        *)
(***************************************************************************)
EXTENDS Integers, Sequences, SequencesExt

UpperCase == <<"A","B","C","D","E","F","G","H","I","J","K","L","M",
               "N","O","P","Q","R","S","T","U","V","W","X","Y","Z">>
LowerCase == <<"a","b","c","d","e","f","g","h","i","j","k","l","m",
               "n","o","p","q","r","s","t","u","v","w","x","y","z">>
Digits == <<"0","1","2","3","4","5","6","7","8","9">>
HexDigits == Digits \o SubSeq(LowerCase, 1, 6)

(* The rest of ASCII, as far as the classes tell it apart.                 *)
MarkChars == {"-", "_", ".", "!", "~", "*", "'", "(", ")"}
Separators == {"(", ")", "<", ">", "@", ",", ";", ":", "/", "[",
               "]", "?", "=", "{", "}"}
Punctuation == MarkChars \union Separators
                 \union {"#", "$", "%", "&", "+", "^", "BQ", "|"}

IS_ALPHA(c) == c \in Range(UpperCase) \union Range(LowerCase)
IS_NUM(c) == c \in Range(Digits)
IS_ALPHANUM(c) == IS_ALPHA(c) \/ IS_NUM(c)

(* c | 0x20: letters become lower case, but other characters move as well. *)
(* Under it a tab is a parenthesis.                                        *)
OddLower == [c \in {"HT", "_", "@", "[", "]", "^"} |->
               CASE c = "HT" -> ")" [] c = "_" -> "DEL" [] c = "@" -> "BQ"
                 [] c = "[" -> "{" [] c = "]" -> "}" [] c = "^" -> "~"]
LOWER(c) ==
    IF c \in Range(UpperCase)
    THEN LowerCase[CHOOSE i \in 1 .. 26 : UpperCase[i] = c]
    ELSE IF c \in DOMAIN OddLower THEN OddLower[c] ELSE c

IS_HEX(c) == LOWER(c) \in Range(HexDigits)
NumOf(c) == (CHOOSE i \in 1 .. 10 : Digits[i] = c) - 1
unhex(c) == IF IS_HEX(c) THEN (CHOOSE i \in 1 .. 16 : HexDigits[i] = LOWER(c)) - 1 ELSE -1

IS_USERINFO_CHAR(c) ==
    IS_ALPHANUM(c) \/ c \in MarkChars \union {"%", ";", ":", "&", "=", "+", "$", ","}
IS_HOST_CHAR(c) == IS_ALPHANUM(c) \/ c \in {".", "-"}
IS_URL_CHAR(c) == IS_ALPHANUM(c) \/ c \in Punctuation \ {"?", "#"}

(* tokens[]: 0, here "0x0", for what may not stand in a header name.       *)
TOKEN(c) ==
    CASE c \in Range(UpperCase) -> LOWER(c)
      [] IS_ALPHANUM(c) /\ c \notin Range(UpperCase) -> c
      [] c \in Punctuation \ Separators -> c
      [] OTHER -> "0x0"

-----------------------------------------------------------------------------
parse_url_char(s, ch) ==
    CASE ch \in {"SP", "CR", "LF", "HT", "FF"} -> "s_dead"
      [] s = "s_req_spaces_before_url" /\ ch \in {"/", "*"} -> "s_req_path"
      [] s \in {"s_req_spaces_before_url", "s_req_schema"} /\ IS_ALPHA(ch) -> "s_req_schema"
      [] s = "s_req_schema" /\ ch = ":" -> "s_req_schema_slash"
      [] s = "s_req_schema_slash" /\ ch = "/" -> "s_req_schema_slash_slash"
      [] s = "s_req_schema_slash_slash" /\ ch = "/" -> "s_req_server_start"
      [] s = "s_req_server_with_at" /\ ch = "@" -> "s_dead"
      [] s \in {"s_req_server_with_at", "s_req_server_start", "s_req_server"} ->
           CASE ch = "/" -> "s_req_path"
             [] ch = "?" -> "s_req_query_string_start"
             [] ch = "@" /\ s # "s_req_server_with_at" -> "s_req_server_with_at"
             [] IS_USERINFO_CHAR(ch) \/ ch \in {"[", "]"} -> "s_req_server"
             [] OTHER -> "s_dead"
      [] s = "s_req_path" ->
           CASE IS_URL_CHAR(ch) -> s
             [] ch = "?" -> "s_req_query_string_start"
             [] ch = "#" -> "s_req_fragment_start"
             [] OTHER -> "s_dead"
      [] s \in {"s_req_query_string_start", "s_req_query_string"} ->
           CASE IS_URL_CHAR(ch) \/ ch = "?" -> "s_req_query_string"
             [] ch = "#" -> "s_req_fragment_start"
             [] OTHER -> "s_dead"
      [] s \in {"s_req_fragment_start", "s_req_fragment"} ->
           CASE IS_URL_CHAR(ch) \/ ch = "?" -> "s_req_fragment"
             [] ch = "#" -> s
             [] OTHER -> "s_dead"
      [] OTHER -> "s_dead"

http_parse_host_char(s, ch) ==
    CASE s \in {"s_http_userinfo", "s_http_userinfo_start"} /\ ch = "@" -> "s_http_host_start"
      [] s \in {"s_http_userinfo", "s_http_userinfo_start"} /\ IS_USERINFO_CHAR(ch) ->
           "s_http_userinfo"
      [] s = "s_http_host_start" /\ ch = "[" -> "s_http_host_v6_start"
      [] s \in {"s_http_host_start", "s_http_host"} /\ IS_HOST_CHAR(ch) -> "s_http_host"
      [] s \in {"s_http_host", "s_http_host_v6_end"} /\ ch = ":" -> "s_http_host_port_start"
      [] s \in {"s_http_host_v6", "s_http_host_v6_zone"} /\ ch = "]" -> "s_http_host_v6_end"
      [] s \in {"s_http_host_v6", "s_http_host_v6_start"} /\ (IS_HEX(ch) \/ ch \in {":", "."}) ->
           "s_http_host_v6"
      [] s = "s_http_host_v6" /\ ch = "%" -> "s_http_host_v6_zone_start"
      [] s \in {"s_http_host_v6_zone", "s_http_host_v6_zone_start"}
           /\ (IS_ALPHANUM(ch) \/ ch \in {"%", ".", "-", "_", "~"}) -> "s_http_host_v6_zone"
      [] s \in {"s_http_host_port", "s_http_host_port_start"} /\ IS_NUM(ch) -> "s_http_host_port"
      [] OTHER -> "s_http_host_dead"

-----------------------------------------------------------------------------
(* struct http_parser_url: the fields found, each with offset and length.  *)
UrlFields == {"UF_SCHEMA", "UF_HOST", "UF_PORT", "UF_PATH", "UF_QUERY", "UF_FRAGMENT",
              "UF_USERINFO"}
NoField == [off |-> 0, len |-> 0]
NoUrl == [field_set |-> {}, field_data |-> [f \in UrlFields |-> NoField], port |-> 0]

(* One more character of a field: it opens the field, or prolongs it.      *)
Opened(u, f, off) == [u EXCEPT !.field_set = @ \union {f},
                               !.field_data[f] = [off |-> off, len |-> 1]]
Longer(u, f) == [u EXCEPT !.field_data[f].len = @ + 1]

(* The body of the loop of http_parse_host(), on the i-th character.       *)
HostChar(buf, h, i) ==
    LET new_s == http_parse_host_char(h.s, buf[i])
        in(f) == IF h.s = new_s THEN Longer(h.u, f) ELSE Opened(h.u, f, i - 1)
    IN IF h.s = "s_http_host_dead" THEN h
       ELSE [s |-> new_s,
             u |-> CASE new_s \in {"s_http_host", "s_http_host_v6"} -> in("UF_HOST")
                     [] new_s \in {"s_http_host_v6_zone_start", "s_http_host_v6_zone"} ->
                          Longer(h.u, "UF_HOST")
                     [] new_s = "s_http_host_port" -> in("UF_PORT")
                     [] new_s = "s_http_userinfo" -> in("UF_USERINFO")
                     [] OTHER -> h.u]

(* http_parse_host() splits UF_HOST into user info, host and port.         *)
http_parse_host(buf, u, found_at) ==
    LET host == u.field_data["UF_HOST"]
        h == FoldLeft(LAMBDA acc, i : HostChar(buf, acc, i),
                      [s |-> IF found_at THEN "s_http_userinfo_start" ELSE "s_http_host_start",
                       u |-> [u EXCEPT !.field_data["UF_HOST"].len = 0]],
                      [k \in 1 .. host.len |-> host.off + k])
    IN [ok |-> h.s \in {"s_http_host", "s_http_host_v6_end", "s_http_host_port"}, u |-> h.u]

(* The field a state of parse_url_char() belongs to; "skip" for delimiters.*)
FieldOf(s) ==
    CASE s = "s_req_schema" -> "UF_SCHEMA"
      [] s \in {"s_req_server_with_at", "s_req_server"} -> "UF_HOST"
      [] s = "s_req_path" -> "UF_PATH"
      [] s = "s_req_query_string" -> "UF_QUERY"
      [] s = "s_req_fragment" -> "UF_FRAGMENT"
      [] OTHER -> "skip"

UrlChar(buf, a, i) ==
    LET s == parse_url_char(a.s, buf[i])
        uf == FieldOf(s)
    IN [a EXCEPT !.s = s,
                 !.found_at = @ \/ s = "s_req_server_with_at",
                 !.old_uf = IF uf = "skip" THEN @ ELSE uf,
                 !.u = IF uf = "skip" THEN @
                       ELSE IF uf = a.old_uf THEN Longer(@, uf) ELSE Opened(@, uf, i - 1)]

strtoul(buf, f) ==
    FoldLeft(LAMBDA v, c : 10 * v + NumOf(c), 0, SubSeq(buf, f.off + 1, f.off + f.len))

http_parser_parse_url(buf, is_connect) ==
    LET a == FoldLeft(LAMBDA acc, i : UrlChar(buf, acc, i),
                      [s |-> IF is_connect THEN "s_req_server_start" ELSE "s_req_spaces_before_url",
                       old_uf |-> "UF_MAX", found_at |-> FALSE, u |-> NoUrl],
                      [i \in 1 .. Len(buf) |-> i])
        hasHost == "UF_HOST" \in a.u.field_set
        host == IF hasHost THEN http_parse_host(buf, a.u, a.found_at)
                ELSE [ok |-> TRUE, u |-> a.u]
        set == host.u.field_set
        port == IF "UF_PORT" \in set THEN strtoul(buf, host.u.field_data["UF_PORT"]) ELSE 0
    IN [ok |-> /\ a.s # "s_dead"
               /\ "UF_SCHEMA" \in set => hasHost
               /\ host.ok
               /\ is_connect => set = {"UF_HOST", "UF_PORT"}
               /\ port <= 65535,
        u |-> [host.u EXCEPT !.port = port]]
=============================================================================
