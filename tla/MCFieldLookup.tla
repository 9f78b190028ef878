--------------------------- MODULE MCFieldLookup ---------------------------
EXTENDS FieldLookup
\* Two fields of the page, one with a modal dialog and one without, and a field
\* in an answer.
CONSTANTS modal, plain, nested
=============================================================================
