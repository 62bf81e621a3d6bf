---------------------------- MODULE MCFileWriter ----------------------------
EXTENDS FileWriter
CONSTANTS l1, l2
MCLines == {l1, l2}
=============================================================================
