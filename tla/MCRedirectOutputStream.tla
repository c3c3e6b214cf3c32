----------------------- MODULE MCRedirectOutputStream ------------------------
(* A cache of three or four tokens of which the prefix takes one, and a text *)
(* longer than what is left: frames end before, at and behind the end of the *)
(* cache.                                                                    *)
EXTENDS RedirectOutputStream

CONSTANTS text, address

MCTokens == {text, CR, LF}

MCPrefix == <<address>>
=============================================================================
