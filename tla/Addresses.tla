------------------------------ MODULE Addresses ------------------------------
(***************************************************************************)
(* How a secret is found again: internal/id, parseBaseURL of internal/api, *)
(* resolveConfig, and the lines of create, reveal and burn that choose a   *)
(* server. create names a server and hands out a link and a receipt; the   *)
(* link is passed on, perhaps typed again by hand, and a later command     *)
(* finds server and identifier in it, in the receipt, or in its options.   *)
(*                                                                         *)
(* A URL is text: the same host can be spelled in several ways. "wide" is  *)
(* a host name with letters beyond ASCII, which net/url writes with        *)
(* percent signs and reads in either form.                                 *)
(***************************************************************************)
EXTENDS Naturals, SequencesExt

CONSTANTS
  Servers,   \* texts given as --server or BURNERPAD_SERVER
  Ids,       \* identifiers the server assigns
  IdLength,  \* 26
  Typed,     \* symbols that are typed when an identifier is copied
  MaxEdits   \* changes made to a link while it is passed on

VARIABLES
  selection, \* option and environment of create
  made,      \* what create handed out: server, link and identifier
  held,      \* the link as its reader holds it
  edits,     \* changes made to it so far
  later      \* what the later command makes of it

addressVars == <<selection, made, held, edits, later>>

\* spelling: "plain" characters, with "caps", or "escaped"; rest: what follows
\* the host, with "other" for everything that neither parser accepts.
Text(scheme, host, spelling, rest) ==
  [scheme |-> scheme, host |-> host, spelling |-> spelling, rest |-> rest, id |-> <<>>]

Absent == Text("", "absent", "plain", "")

Refused == Text("", "refused", "plain", "")

defaultServer == Text("https", "public", "plain", "")

\* Three of the 32 symbols of Crockford's alphabet: the two that others stand
\* for, and a letter.
alphabet == {"0", "1", "A"}

ASSUME ServersAssumption ==
  \A text \in Servers :
    /\ text = Text(text.scheme, text.host, text.spelling, text.rest)
    /\ text.spelling \in {"plain", "caps", "escaped"}

ASSUME IdsAssumption ==
  /\ IdLength \in Nat \ {0} /\ MaxEdits \in Nat
  /\ \A id \in Ids : id \in Seq(alphabet) /\ Len(id) = IdLength

SelectionType == [option : Servers \union {Absent}, env : Servers \union {Absent}]
-----------------------------------------------------------------------------
\* What url.Parse understands: an escaped host is decoded.
urlParse(text) ==
  [text EXCEPT !.spelling = IF @ = "escaped" THEN "plain" ELSE @]

\* url.String of scheme and host: letters beyond ASCII are escaped.
urlString(u) ==
  Text(u.scheme, u.host, IF u.host = "wide" THEN "escaped" ELSE u.spelling, "")

lower(u) == [u EXCEPT !.spelling = IF @ = "caps" THEN "plain" ELSE @]

loopbackHost(host) == host = "loopback"

\* As ParseBaseURL, but the host is kept as it was given.
ParseBaseURLAsGiven(text) ==
  LET u == urlParse(text) IN
    IF /\ u.scheme \in {"http", "https"}
       /\ u.rest \in {"", "/"}
       /\ u.scheme = "http" => loopbackHost(u.host)
    THEN urlString(u) ELSE Refused

\* parseBaseURL and ParseBaseURL: the canonical text of a server, or Refused.
ParseBaseURL(text) ==
  LET u == urlParse(text) IN
    IF /\ u.scheme \in {"http", "https"}
       /\ u.rest \in {"", "/"}
       /\ u.scheme = "http" => loopbackHost(u.host)
    THEN urlString(lower(u)) ELSE Refused

\* As resolveConfig, but the environment is asked first.
resolveConfigFromEnv(option, env) ==
  CASE env # Absent -> env
    [] env = Absent /\ option # Absent -> option
    [] OTHER -> defaultServer

\* The server of the configuration: an option that was given counts, an empty
\* one, too, which then is no origin.
resolveConfig(option, env) ==
  CASE option # Absent -> option
    [] option = Absent /\ env # Absent -> env
    [] OTHER -> defaultServer

fold(c) ==
  CASE c \in {"o", "O"} -> "0"
    [] c \in {"i", "I", "l", "L"} -> "1"
    [] c = "a" -> "A"
    [] OTHER -> c

BadID == <<>>

\* The loop over the symbols keeps what is no hyphen.
Kept(raw) ==
  LET kept[n \in 0..Len(raw)] ==
        IF n = 0 THEN <<>>
        ELSE IF raw[n] = "-" THEN kept[n - 1] ELSE Append(kept[n - 1], raw[n])
  IN  kept[Len(raw)]

\* What is kept is folded and counted.
Normalize(raw) ==
  LET folded == [i \in DOMAIN Kept(raw) |-> fold(Kept(raw)[i])]
  IN  IF Len(folded) = IdLength /\ Range(folded) \subseteq alphabet THEN folded ELSE BadID

\* parseURL: the origin is put together from scheme and decoded host.
parseURL(text) ==
  LET u == urlParse(text)
      id == Normalize(u.id)
  IN  IF u.scheme \in {"http", "https"} /\ u.rest = "/s/" /\ id # BadID
      THEN [origin |-> Text(u.scheme, u.host, lower(u).spelling, ""), id |-> id]
      ELSE [origin |-> Refused, id |-> BadID]

\* The link that create prints.
Link(server, id) ==
  [Text(server.scheme, server.host, server.spelling, "/s/") EXCEPT !.id = id]
-----------------------------------------------------------------------------
NotMade == [server |-> Absent, link |-> Absent, id |-> BadID]

NotYet == [by |-> "none", option |-> Absent, env |-> Absent, server |-> Refused,
           id |-> BadID, told |-> FALSE]

AddressTypeOK ==
  /\ selection \in SelectionType
  /\ DOMAIN made = {"server", "link", "id"}
  /\ edits \in 0..MaxEdits
  /\ later.by \in {"none", "reveal", "receipt", "url", "identifier"}

AddressInit ==
  /\ selection = [option |-> Absent, env |-> Absent]
  /\ made = NotMade /\ held = Absent /\ edits = 0 /\ later = NotYet

\* runCreate on a server that it accepts; one that it does not accept is
\* refused before anything is read.
Create ==
  /\ made = NotMade
  /\ selection' \in SelectionType
  /\ \E id \in Ids :
       LET server == ParseBaseURL(resolveConfig(selection'.option, selection'.env)) IN
         /\ server # Refused
         /\ made' = [server |-> server, link |-> Link(server, id), id |-> id]
         /\ held' = Link(server, id)
  /\ UNCHANGED <<edits, later>>

Edit(text) ==
  /\ held' = text /\ edits' = edits + 1
  /\ UNCHANGED <<selection, made, later>>

\* A mail program or a browser shows the host in another spelling.
RetypeHost ==
  \E spelling \in {"plain", "caps"} \union (IF held.host = "wide" THEN {"escaped"} ELSE {}) :
    Edit([held EXCEPT !.spelling = spelling])

RetypeSymbol ==
  \E i \in DOMAIN held.id, c \in Typed : Edit([held EXCEPT !.id[i] = c])

AddSymbol ==
  \E i \in 1..Len(held.id) + 1, c \in Typed : Edit([held EXCEPT !.id = InsertAt(@, i, c)])

LoseSymbol ==
  \E i \in DOMAIN held.id : Edit([held EXCEPT !.id = RemoveAt(@, i)])

Passing ==
  /\ made # NotMade /\ later = NotYet /\ edits < MaxEdits
  /\ RetypeHost \/ RetypeSymbol \/ AddSymbol \/ LoseSymbol

\* A command without a server or an identifier ends with a usage error.
Address(by, s, server, id, told) ==
  /\ later' = [by |-> by, option |-> s.option, env |-> s.env,
               server |-> IF id = BadID THEN Refused ELSE server, id |-> id, told |-> told]
  /\ UNCHANGED <<selection, made, held, edits>>

\* runReveal: the link decides, --server is only warned about.
RevealLink ==
  \E s \in SelectionType :
    LET target == parseURL(held) IN
      Address("reveal", s, ParseBaseURL(target.origin), target.id, s.option # Absent)

\* runBurn with a link.
BurnLink ==
  \E s \in SelectionType :
    LET target == parseURL(held) IN
      Address("url", s, ParseBaseURL(target.origin), target.id, s.option # Absent)

\* runBurn with the receipt of create on standard input: the server it names
\* must be the origin of its link.
BurnReceipt ==
  \E s \in SelectionType :
    LET target == parseURL(made.link)
        server == ParseBaseURL(made.server)
    IN  Address("receipt", s, IF server = target.origin THEN server ELSE Refused, target.id,
                s.option # Absent)

\* runBurn with a bare identifier: options and environment choose the server.
BurnIdentifier ==
  \E s \in SelectionType :
    Address("identifier", s, ParseBaseURL(resolveConfig(s.option, s.env)), Normalize(held.id), FALSE)

LaterCommand ==
  /\ made # NotMade /\ later = NotYet
  /\ RevealLink \/ BurnLink \/ BurnReceipt \/ BurnIdentifier

AddressNext == Create \/ Passing \/ LaterCommand

AddressSpec == AddressInit /\ [][AddressNext]_addressVars
-----------------------------------------------------------------------------
\* What README.md says of identifiers: hyphens do not count, letters may be in
\* lower case, I and L stand for 1, O for 0.
Spellings(c) ==
  CASE c = "0" -> {"0", "O", "o"}
    [] c = "1" -> {"1", "I", "i", "L", "l"}
    [] c = "A" -> {"A", "a"}

IsSpelling(raw, id) ==
  Len(Kept(raw)) = Len(id) /\ \A i \in DOMAIN id : Kept(raw)[i] \in Spellings(id[i])

FoundAgain == later.server = made.server /\ later.id = made.id

\* However a link is spelled when it arrives, it leads to the server and the
\* secret it was made for, whatever options and environment say, and no text
\* that is not a spelling of it does. An identifier does the same where the
\* same server is selected, and so does a receipt of a server with an ASCII
\* name.
LeadsBack ==
  /\ later.by \in {"reveal", "url"} => (FoundAgain <=> IsSpelling(held.id, made.id))
  /\ later.by = "receipt" /\ made.server.host # "wide" => FoundAgain
  /\ later.by = "identifier"
     /\ resolveConfig(later.option, later.env) = resolveConfig(selection.option, selection.env)
       => (FoundAgain <=> IsSpelling(held.id, made.id))

\* A server that was asked for with --server and is not the one that is
\* contacted has been mentioned to the user.
NeverRedirectedSilently ==
  later.by # "none" /\ later.server # Refused /\ later.option # Absent
    => later.told \/ later.server = ParseBaseURL(later.option)

\* docs: a receipt of create can be piped to burn, which revokes the secret.
ReceiptsAreAccepted == later.by = "receipt" => FoundAgain
=============================================================================
