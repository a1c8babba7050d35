--------------------------- MODULE MCModZipCache ---------------------------
(* Instances of ModZipCache: after the first change there are files.        *)
EXTENDS ModZipCache

MCEmpty == {0, 2}
=============================================================================
