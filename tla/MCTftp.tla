--------------------------------- MODULE MCTftp --------------------------------
EXTENDS Tftp

\* Five blocks, so that the numbers wrap; an exact multiple of the block size; and
\* the file just truncated.
MCFiles == {[id |-> "old", size |-> 9], [id |-> "new", size |-> 4],
            [id |-> "new", size |-> 0]}
================================================================================
