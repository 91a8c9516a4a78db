------------------------- MODULE MCTelegramAdapter -------------------------
(***************************************************************************)
(* Instances of TelegramAdapter for TLC: a short reply, and one with a     *)
(* blank line and a line that is longer than a message.                    *)
(***************************************************************************)
EXTENDS TelegramAdapter

CONSTANTS text, stranger, photo1, photo2, single

ShortAndLong == {<<2>>, <<1, 0, 1, 4>>}
=============================================================================
