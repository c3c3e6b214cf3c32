--------------------------- MODULE RedirectStream ----------------------------
(***************************************************************************)
(* The object ERxRedirectOutputStream                                      *)
(* (libs/ERxOutputStream/ERxRedirectOutputStream.cpp) as a value, and its  *)
(* member functions as operators on it.  The stream caches what is written *)
(* and sends the cache as one packet at the end of a message frame (CR LF) *)
(* or when the cache is full; every packet begins with a prefix.           *)
(*                                                                         *)
(* Text is a sequence of tokens: a natural number stands for its digits,   *)
(* CR and LF for those characters, any other element for text.  "sent" is  *)
(* what the underlying Print has received and its owner not yet collected. *)
(***************************************************************************)
EXTENDS Naturals, Sequences, SequencesExt

CONSTANTS
  CR, LF,     \* the two characters that end a message frame
  CacheSize   \* m_capacity, the tokens the cache holds

ASSUME CacheAssumption == CacheSize \in Nat \ {0} /\ CR # LF

NewStream(prefix) ==
  [cache |-> <<>>, first |-> TRUE, cr |-> FALSE, prefix |-> prefix, sent |-> <<>>]

Full(s) == Len(s.cache) = CacheSize

\* A mutant, for the checks only: the next packet gets no prefix.
FlushedUnprefixed(s) ==
  IF s.cache = <<>>
    THEN s
    ELSE [s EXCEPT !.sent = Append(@, s.cache), !.cache = <<>>, !.cr = FALSE]

Flushed(s) ==
  IF s.cache = <<>>
    THEN s
    ELSE [s EXCEPT !.sent = Append(@, s.cache),
                   !.cache = <<>>, !.first = TRUE, !.cr = FALSE]

MakeRoom(s) == IF Full(s) THEN Flushed(s) ELSE s

\* _writeToCache
Cached(s, c) ==
  LET t == MakeRoom(s) IN [t EXCEPT !.cache = Append(@, c)]

\* The prefix is written token by token, as far as it goes.
PrefixPut(s) ==
  LET put[k \in 0 .. Len(s.prefix)] ==
        IF k = 0 THEN [s EXCEPT !.first = FALSE] ELSE Cached(put[k - 1], s.prefix[k])
  IN  put[Len(s.prefix)]

Prefixed(s) == IF s.first THEN PrefixPut(s) ELSE s

\* A mutant, for the checks only: the end of a frame does not flush.
FrameUnsent(s, c) ==
  IF c = LF /\ s.cr
    THEN [s EXCEPT !.first = TRUE, !.cr = FALSE]
    ELSE [s EXCEPT !.cr = c = CR]

\* The end of a frame is recognised on LF when CR was the token before it.
FrameChecked(s, c) ==
  IF c = LF /\ s.cr
    THEN [Flushed(s) EXCEPT !.first = TRUE, !.cr = FALSE]
    ELSE [s EXCEPT !.cr = c = CR]

Written(s, c) == FrameChecked(Cached(Prefixed(MakeRoom(s)), c), c)

\* write of a text, token by token.
WrittenAll(s, text) ==
  LET put[k \in 0 .. Len(text)] ==
        IF k = 0 THEN s ELSE Written(put[k - 1], text[k])
  IN  put[Len(text)]
=============================================================================
