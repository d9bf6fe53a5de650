-------------------------------- MODULE Url --------------------------------
(***************************************************************************)
(* The URL functions of butil.c: butil_parse_url, butil_paste_url and the  *)
(* table of user schemes both look at.  A URL is a sequence of characters; *)
(* the name of a built-in scheme is one character, all letters are lower   *)
(* case.  A caller registers schemes and parses and pastes URLs in any     *)
(* order; the result of the last call is kept.                             *)
(***************************************************************************)
EXTENDS Integers, Sequences, SequencesExt

CONSTANTS
  Chars,       \* the characters of URLs
  Printed,     \* names butil_scheme_name has, without the user schemes
  Known,       \* names butil_scheme_from_name has, without the user schemes
  DefaultPort, \* default port of the schemes in Known
  Value,       \* the digits, and their values
  PortLimit,   \* a port has 16 bits: 65536
  MaxPortSpec, \* BUTIL_MAX_PORTSPEC: 5
  MaxScheme,   \* BUTIL_MAX_URL_SCHEME: 8
  NumUser,     \* BUTIL_NUM_USER_SCHEMES: 4
  MaxHost,     \* nhost
  MaxPath,     \* npath
  Names,       \* names the caller registers
  Urls,        \* URLs it parses
  Parts        \* what it pastes: records of scheme, host, port and path

Nul == "nul"   \* what a string ends with

ASSUME UrlAssumption ==
  /\ Nul \notin Chars /\ {":", "/"} \subseteq Chars /\ Urls \subseteq Seq(Chars)
  /\ Names \subseteq Seq(Chars \ {":"}) /\ Known \subseteq Chars \ {":"}
  /\ "http" \in Known /\ DefaultPort \in [Known -> 1 .. PortLimit - 1]
  /\ DOMAIN Value \subseteq Chars \ {":", "/"} /\ \A c \in DOMAIN Value : Value[c] \in 0 .. 9
  /\ PortLimit \in Nat /\ MaxPortSpec \in Nat /\ MaxScheme \in Nat \ {0, 1} /\ NumUser \in Nat
  /\ MaxHost \in Nat /\ MaxPath \in Nat

VARIABLES
  user,     \* the names in s_user_schemes, in order
  asked,    \* what the last call was asked
  result    \* what it returned

vars == <<user, asked, result>>

Nothing == [call |-> "none"]
Failed  == [ok |-> FALSE]

From(w, i)  == SubSeq(w, i + 1, Len(w))     \* w + i
UpTo(w, i)  == SubSeq(w, 1, i)
Char(w, i)  == IF i < Len(w) THEN w[i + 1] ELSE Nul

\* strstr: the indices at which pattern occurs in w.
Occurrences(w, pattern) == {i \in 0 .. Len(w) - Len(pattern) : IsPrefix(pattern, From(w, i))}

\* Length of the longest start of w without a character of `stops'.
Span(w, stops) == Min({i \in 0 .. Len(w) - 1 : w[i + 1] \in stops} \cup {Len(w)})

-----------------------------------------------------------------------------
\* butil_register_scheme: the first free slot, an empty name leaves it free.
Register(name) ==
  /\ asked' = [call |-> "register"]
  /\ IF Len(user) < NumUser
     THEN /\ user' = IF name = <<>> THEN user
                     ELSE Append(user, UpTo(name, Min({Len(name), MaxScheme - 1})))
          /\ result' = [ok |-> TRUE]
     ELSE user' = user /\ result' = Failed

\* Schemes are the built-in names and the numbers of the user schemes.
BuiltIn(name) == IF Len(name) = 1 /\ name[1] \in Known THEN {name[1]} ELSE {}

\* strncasecmp compares as many characters as the registered name has.
Registered(name) == {k \in DOMAIN user : IsPrefix(user[k], name)}

\* butil_scheme_from_name, as the set of at most one scheme.
SchemeFromName(name) ==
  IF BuiltIn(name) # {} THEN {<<"builtin", name[1]>>}
  ELSE IF Registered(name) # {} THEN {<<"user", Min(Registered(name))>>}
  ELSE {}

\* butil_scheme_name.
SchemeName(scheme) ==
  IF scheme[1] = "user" /\ scheme[2] \in DOMAIN user THEN user[scheme[2]]
  ELSE IF scheme[1] = "builtin" /\ scheme[2] \in Printed THEN <<scheme[2]>>
  ELSE <<"?", "?", "?", "?">>

PortOf(scheme) == IF scheme[1] = "builtin" THEN DefaultPort[scheme[2]] ELSE DefaultPort["http"]

\* The scheme's name, and where what follows it begins.
SchemePart(url) ==
  LET full  == Occurrences(url, <<":", "/", "/">>)
      short == Occurrences(url, <<"/", "/">>)
  IN IF full # {} THEN [name |-> UpTo(url, Min(full)), after |-> Min(full) + 3]
     ELSE [name |-> <<"http">>, after |-> IF short # {} THEN Min(short) + 2 ELSE 0]

HostLength(w)  == Span(w, {":", "/"})

\* strtoul at the start of w: the number of digits, and their value.
Digits(w) == Span(w, {w[i] : i \in DOMAIN w} \ DOMAIN Value)
Number(w) == FoldLeft(LAMBDA v, c : 10 * v + Value[c], 0, UpTo(w, Digits(w)))

\* Host and port, and the rest: <<>> when the port or the rest is malformed.
HostPart(w, default) ==
  LET len  == HostLength(w)
      spec == From(w, len + 1)
      rest == IF Char(w, len) = ":" THEN From(spec, Digits(spec)) ELSE From(w, len)
  IN IF \/ len >= MaxHost
        \/ Char(w, len) = ":" /\ Digits(spec) > MaxPortSpec
        \/ Char(rest, 0) \notin {"/", Nul}
     THEN Failed
     ELSE [ok |-> TRUE, host |-> UpTo(w, len), rest |-> rest,
           port |-> IF Char(w, len) = ":" THEN Number(spec) % PortLimit ELSE default]

\* Faulty form of Path: the path may stay empty.
PathAsIs(rest) == rest
Path(rest)     == IF rest = <<>> THEN <<"/">> ELSE rest

\* butil_parse_url.  A file has no host, and its port stays at the initial 80.
Parse(url) ==
  LET start  == SchemePart(url)
      scheme == SchemeFromName(start.name)
      w      == From(url, start.after)
      s      == CHOOSE x \in scheme : TRUE
      h      == IF s = <<"builtin", "file">>
                THEN [ok |-> TRUE, host |-> <<>>, rest |-> w, port |-> DefaultPort["http"]]
                ELSE HostPart(w, PortOf(s))
  IN IF Len(start.name) >= MaxScheme \/ scheme = {} THEN Failed
     ELSE IF ~ h.ok THEN Failed
     ELSE IF Len(h.rest) >= MaxPath THEN Failed
     ELSE [ok |-> TRUE, scheme |-> s, host |-> h.host, port |-> h.port, path |-> Path(h.rest)]

\* "%u" of a port.
Printings(port) == {d \in SeqOf(DOMAIN Value, MaxPortSpec) \ {<<>>} :
                     Number(d) = port /\ (Len(d) > 1 => Value[d[1]] # 0)}
Printing(port)  == CHOOSE d \in Printings(port) : TRUE

\* What is pasted has a scheme's number, a host without delimiters, a port that
\* can be printed, and lengths that can be parsed.
ASSUME PartsAssumption ==
  \A p \in Parts :
    /\ p.scheme \in ({"builtin"} \X (Printed \cup Known)) \cup ({"user"} \X Nat)
    /\ p.host \in Seq(Chars \ {":", "/"}) /\ Len(p.host) < MaxHost
    /\ p.path \in Seq(Chars) /\ Len(p.path) + 1 < MaxPath
    /\ p.port \in 0 .. PortLimit - 1 /\ (p.port # 0 => Printings(p.port) # {})

\* Faulty form of Relative: the slash is pasted twice.
Absolute(path) == path
Relative(path) == IF Char(path, 0) = "/" THEN From(path, 1) ELSE path

\* butil_paste_url.  Without a port it is 443, and 80 for https.
Paste(p) ==
  LET name == SchemeName(p.scheme)
      port == IF p.port # 0 THEN p.port ELSE IF name # <<"https">> THEN 443 ELSE 80
  IN name \o <<":", "/", "/">> \o p.host \o <<":">> \o Printing(port) \o <<"/">> \o Relative(p.path)

-----------------------------------------------------------------------------
Init == user = <<>> /\ asked = Nothing /\ result = Failed

ParseUrl(url) ==
  /\ asked' = [call |-> "parse", url |-> url]
  /\ result' = Parse(url)
  /\ UNCHANGED user

\* What is pasted is parsed again.
PasteUrl(p) ==
  /\ p.scheme[1] = "user" => p.scheme[2] \in DOMAIN user
  /\ asked' = [call |-> "paste", parts |-> p]
  /\ result' = Parse(Paste(p))
  /\ UNCHANGED user

UrlCalls ==
  \/ \E name \in Names : Register(name)
  \/ \E url \in Urls : ParseUrl(url)
  \/ \E p \in Parts : PasteUrl(p)

-----------------------------------------------------------------------------
(* Properties *)

\* Both functions know the scheme, and it has a host.
Builtins == (Printed \cap Known) \ {"file"}

\* The scheme's name is found again: it is built in, or it is no built-in name
\* and no scheme registered before is a prefix of it.
Unshadowed(scheme) ==
  IF scheme[1] = "builtin" THEN scheme[2] \in Builtins
  ELSE BuiltIn(user[scheme[2]]) = {} /\ ~ \E k \in 1 .. scheme[2] - 1 : IsPrefix(user[k], user[scheme[2]])

\* A URL made by butil_paste_url is taken apart by butil_parse_url into the
\* scheme, host, port and path it was made of, whichever schemes were
\* registered, and in whatever order (butil.c:660-833, 863-925).
RoundTrip ==
  asked.call = "paste" =>
    LET p == asked.parts IN
      Unshadowed(p.scheme) /\ p.port # 0 =>
        /\ result.ok
        /\ result.scheme = p.scheme /\ result.host = p.host /\ result.port = p.port
        /\ result.path = (IF Char(p.path, 0) = "/" THEN p.path ELSE <<"/">> \o p.path)

\* The ways a URL may be spelled whose parts are host, port and path: with the
\* port in digits, or without it if it is the scheme's, and with an empty path
\* for "/".
Spelled(r, w) ==
  \E n \in 0 .. MaxPortSpec :
    LET len  == Len(r.host)
        spec == SubSeq(w, len + 2, len + 1 + n)
        tail == IF Char(w, len) = ":" THEN From(w, len + 1 + n) ELSE From(w, len)
    IN /\ UpTo(w, len) = r.host
       /\ \/ Char(w, len) = ":" /\ Digits(spec) = n /\ Len(spec) = n
             /\ r.port = Number(spec) % PortLimit
          \/ Char(w, len) # ":" /\ r.port = PortOf(r.scheme)
       /\ r.path = (IF tail = <<>> THEN <<"/">> ELSE tail)

\* Every character of an accepted URL is accounted for: the parts that are
\* returned spell the URL from behind the scheme on, the host has no delimiter
\* in it, and the path starts with one (butil.c:768-832).
Accounted ==
  asked.call = "parse" /\ result.ok /\ result.scheme # <<"builtin", "file">> =>
    /\ Spelled(result, From(asked.url, SchemePart(asked.url).after))
    /\ \A i \in DOMAIN result.host : result.host[i] \notin {":", "/"}
    /\ result.path[1] = "/"

=============================================================================
