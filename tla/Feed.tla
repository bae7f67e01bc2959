-------------------------------- MODULE Feed --------------------------------
(***************************************************************************)
(* Decoding a feed as it arrives: decodeROAsJSON (roa.go) and              *)
(* decodeASPAsJSON (aspa.go), which differ in the member they look for and *)
(* in the type of its entries.  The decoder sees a document as tokens:     *)
(*                                                                         *)
(*   <<"lbrace">>, <<"rbrace">>,                                           *)
(*   <<"lbracket">>, <<"rbracket">>       delimiters                       *)
(*   <<"wanted">>                         the string "roas" or "aspa"      *)
(*   <<"other">>                          any other string or number       *)
(*   <<"entry", e>>                       an object that decodes to e      *)
(*   <<"bad">>                            one that does not                *)
(*                                                                         *)
(* Arrival may break off after any token or inside one.  json.Decoder is   *)
(* external: Token and Decode fail where the document has broken off, but  *)
(* More answers FALSE there, as it does at the end of an array or object.  *)
(***************************************************************************)
EXTENDS Integers, Sequences, Functions

CONSTANTS
  Entries,   \* entries that can occur: records of key, val, expires
  Docs       \* documents that can occur, as objects or arrays of members

Delimiters == {"lbrace", "rbrace", "lbracket", "rbracket"}

Symbols == {<<t>> : t \in Delimiters \cup {"wanted", "other", "bad"}}
             \cup {<<"entry", e>> : e \in Entries}

\* A member has a name, wanted or other, and a value: one token or an array of them.
Tokens(d) ==
  LET open  == IF d.object THEN "lbrace" ELSE "lbracket"
      close == IF d.object THEN "rbrace" ELSE "rbracket"
      upto[m \in 0 .. Len(d.members)] ==
        IF m = 0 THEN << <<open>> >>
        ELSE upto[m - 1] \o << <<d.members[m].name>> >> \o d.members[m].value
  IN  Append(upto[Len(d.members)], <<close>>)

ASSUME FeedAssumption ==
  /\ \A e \in Entries : e.key \in Int /\ e.val \in Int /\ e.expires \in Nat
  /\ \A d \in Docs : Tokens(d) \in Seq(Symbols)

VARIABLES
  doc,    \* ghost: the document the URL has
  text,   \* its tokens
  cut,    \* how many of them arrive
  torn,   \* whether a part of the next one does, too
  pos,    \* how many tokens were read
  step,   \* where the decoder is; "ok" or "error" when it has returned
  got     \* roas, aspas: the entries decoded so far

document == <<doc, text, cut, torn>>
feedVars == <<document, pos, step, got>>

Kind(m) == IF m <= Len(text) THEN text[m][1] ELSE "none"

FeedInit ==
  /\ doc \in Docs /\ text = Tokens(doc)
  /\ cut \in 0 .. Len(text)
  /\ torn \in BOOLEAN
  /\ torn => Kind(cut + 1) \notin Delimiters \cup {"none"}
  /\ pos = 0 /\ step = "open" /\ got = <<>>
-----------------------------------------------------------------------------
(* json.Decoder.  External. *)

More == IF pos < cut THEN Kind(pos + 1) \notin {"rbracket", "rbrace"} ELSE torn

\* The next token is there, and it is one of S.
Token(S) == pos < cut /\ Kind(pos + 1) \in S

\* The value that begins at m ends at n.
Value(m, n) ==
  IF Kind(m) = "lbracket" THEN Kind(n) = "rbracket" /\ \A k \in m .. n - 1 : Kind(k) # "rbracket"
  ELSE n = m
-----------------------------------------------------------------------------
(* The decoder. *)

Returns(result) ==
  /\ step' = result
  /\ UNCHANGED <<document, pos, got>>

Advance(to, then) ==
  /\ pos' = to /\ step' = then
  /\ UNCHANGED <<document, got>>

ReadOpen ==
  /\ step = "open"
  /\ IF Token({"lbrace"}) THEN Advance(pos + 1, "members") ELSE Returns("error")

Skip_KeyOnly == Advance(pos + 1, "members")

\* dec.Decode(&skip): the key and its value.
Skip ==
  \/ \E n \in pos + 2 .. cut : Value(pos + 2, n) /\ Advance(n, "members")
  \/ (\A n \in pos + 2 .. cut : ~Value(pos + 2, n)) /\ Returns("error")

\* Look for the member.
ReadMember ==
  /\ step = "members"
  /\ More
  /\ IF Token({"wanted"}) THEN Advance(pos + 1, "array")
     ELSE IF Token({"other"}) THEN Skip
     ELSE IF pos < cut THEN Advance(pos + 1, "members")   \* not a string: continue
     ELSE Returns("error")

NoMember ==
  /\ step = "members"
  /\ ~More
  /\ Advance(pos, "array")

ReadArray ==
  /\ step = "array"
  /\ IF Token({"lbracket"}) THEN Advance(pos + 1, "entries") ELSE Returns("error")

ReadEntry ==
  /\ step = "entries"
  /\ More
  /\ IF Token({"entry"})
     THEN /\ got' = Append(got, text[pos + 1][2])
          /\ pos' = pos + 1
          /\ UNCHANGED <<document, step>>
     ELSE Returns("error")

EndEntries ==
  /\ step = "entries"
  /\ ~More
  /\ Returns("ok")

FeedNext == ReadOpen \/ ReadMember \/ NoMember \/ ReadArray \/ ReadEntry \/ EndEntries
-----------------------------------------------------------------------------
(* Properties. *)

\* The first member with the name, if there is one.
Sought ==
  {m \in 1 .. Len(doc.members) :
     /\ doc.members[m].name = "wanted"
     /\ \A k \in 1 .. m - 1 : doc.members[k].name # "wanted"}

\* The elements of its array, and whether it has one, with elements that all decode.
Wanted ==
  LET v == IF Sought = {} THEN <<>> ELSE doc.members[CHOOSE m \in Sought : TRUE].value
  IN  IF Len(v) < 2 THEN <<>> ELSE SubSeq(v, 2, Len(v) - 1)

Decodable ==
  /\ doc.object
  /\ \E m \in Sought : doc.members[m].value[1] = <<"lbracket">>
  /\ \A k \in 1 .. Len(Wanted) : Wanted[k][1] = "entry"

\* The entries are those of the member looked for, in order, wherever it stands and
\* whatever other members hold ("to stay in sync", roa.go:222); a document that
\* arrives whole is decoded whole; and one that breaks off is an error unless it
\* does so between two entries or after the last: then what came is taken for all
\* there is, since More cannot tell (roa.go:238, aspa.go:161).
DecodesFeed ==
  /\ \A k \in 1 .. Len(got) : k <= Len(Wanted) /\ Wanted[k] = <<"entry", got[k]>>
  /\ step = "error" => ~Decodable \/ cut < Len(text)
  /\ step = "ok" /\ Len(got) # Len(Wanted) => cut = pos /\ ~torn
=============================================================================
