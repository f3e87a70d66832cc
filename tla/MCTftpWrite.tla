------------------------------ MODULE MCTftpWrite ------------------------------
EXTENDS TftpWrite

\* Four blocks, so that the numbers wrap; and an exact multiple of the block size.
MCFiles == {[id |-> "a", size |-> 7], [id |-> "b", size |-> 4]}
================================================================================
