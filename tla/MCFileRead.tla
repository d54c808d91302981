------------------------------ MODULE MCFileRead ------------------------------
EXTENDS FileRead, MCContents
===============================================================================
