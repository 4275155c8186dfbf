--------------------------- MODULE MCUsbStorage ---------------------------
(***************************************************************************)
(* The drive of two chunks, mounted in up to two places under spellings    *)
(* that stat() and the string tell apart and one that neither does.        *)
(***************************************************************************)
EXTENDS UsbStorage

CONSTANT p1

OnePoint == {p1}
Spellings == {"device", "respelled_partition", "another_drive"}

=============================================================================
