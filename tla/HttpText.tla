------------------------------ MODULE HttpText ------------------------------
(***************************************************************************)
(* The text functions under the HTTP parser, on texts as sequences of      *)
(* characters: Split and Join of http/http_utils.cc, the header line of    *)
(* http/header.cc and Buffer::FindAndPopTill.  Stream.tla makes the texts. *)
(***************************************************************************)
EXTENDS Integers, Sequences, SequencesExt

CONSTANTS Colon,     \* COLON
          CR, LF     \* CRLF is CR LF

ASSUME DelimiterAssumption == CR # LF

CRLF == <<CR, LF>>
Npos == 0

\* std::string::find: the first occurrence of d in s at or after position b.
Find(s, d, b) ==
  LET at == {i \in b..(Len(s) - Len(d) + 1) : SubSeq(s, i, i + Len(d) - 1) = d}
  IN IF at = {} THEN Npos ELSE CHOOSE i \in at : \A j \in at : i <= j

From(s, b) == SubSeq(s, b, Len(s))

\* A Split that looks for the next delimiter inside the one just found.
TokensOverlap(s, d) ==
  LET from[b \in 1..(Len(s) + 1)] ==
        LET t == Find(s, d, b)
        IN IF t # Npos THEN <<SubSeq(s, b, t - 1)>> \o from[t + 1]
           ELSE IF b <= Len(s) THEN <<From(s, b)>> ELSE <<>>
  IN from[1]

\* The loop of Split: the token up to each delimiter, and the rest unless empty.
Tokens(s, d) ==
  LET from[b \in 1..(Len(s) + 1)] ==
        LET t == Find(s, d, b)
        IN IF t # Npos THEN <<SubSeq(s, b, t - 1)>> \o from[t + Len(d)]
           ELSE IF b <= Len(s) THEN <<From(s, b)>> ELSE <<>>
  IN from[1]

Split(s, d) == IF s = <<>> THEN <<>> ELSE Tokens(s, d)

\* Join adds a colon before every token but the last, whatever the separator.
Join(tokens, d) ==
  IF Len(tokens) = 1 THEN tokens[1]
  ELSE FlattenSeq([i \in DOMAIN tokens |->
                     (IF i # Len(tokens) THEN <<Colon>> ELSE <<>>) \o tokens[i]])

\* A parser that leaves the key among the tokens of the value.
HeaderKeepsKey(line) ==
  LET tokens == Split(line, <<Colon>>)
  IN IF Len(tokens) < 2 THEN [valid |-> FALSE, key |-> <<>>, value |-> <<>>]
     ELSE [valid |-> TRUE, key |-> tokens[1], value |-> Join(tokens, <<Colon>>)]

\* Header(header_line), and Serialize of its result.
Header(line) ==
  LET tokens == Split(line, <<Colon>>)
  IN IF Len(tokens) < 2 THEN [valid |-> FALSE, key |-> <<>>, value |-> <<>>]
     ELSE [valid |-> TRUE, key |-> tokens[1],
           value |-> IF Len(tokens) = 2 THEN tokens[2] ELSE Join(Tail(tokens), <<Colon>>)]

Serialize(h) == h.key \o <<Colon>> \o h.value \o CRLF

FindAndPopTill(buf, target) ==
  LET pos == Find(buf, target, 1)
  IN IF pos = Npos THEN [found |-> FALSE, res |-> <<>>, rest |-> buf]
     ELSE LET end == pos + Len(target) - 1
          IN [found |-> TRUE, res |-> SubSeq(buf, 1, end), rest |-> From(buf, end + 1)]

-----------------------------------------------------------------------------
(* Reference definitions.                                                  *)

\* The tokens with d between any two.
Glue(tokens, d) ==
  FlattenSeq([i \in DOMAIN tokens |-> IF i = 1 THEN tokens[i] ELSE d \o tokens[i]])

Has(s, d) == Find(s, d, 1) # Npos
=============================================================================
