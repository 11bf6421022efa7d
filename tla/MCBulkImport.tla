--------------------------- MODULE MCBulkImport ----------------------------
(***************************************************************************)
(* Two directories in batches of two images: the first spans three batches *)
(* and shares the third with the second directory, whose last image makes  *)
(* an incomplete batch.                                                    *)
(***************************************************************************)
EXTENDS BulkImport

CONSTANTS alice, bob

TwoDirectories == {alice, bob}

SevenImages == <<alice, alice, alice, alice, alice, bob, bob>>

=============================================================================
