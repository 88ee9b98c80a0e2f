----------------------------- MODULE MCAvlTable -----------------------------
EXTENDS AvlTable

MCValue == [key : 1..7, data : Data]

=============================================================================
