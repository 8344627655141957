------------------------------ MODULE MCStorage ------------------------------
\* Storage with the desktop application, its window and one other thread, a
\* pairing or the command listener, and one unlocking program.
EXTENDS Storage

MCThreads == {"ui", "worker", "auth"}
MCProcessOf == [th \in MCThreads |-> IF th = "auth" THEN "auth" ELSE "desktop"]
MCOperations == [ui |-> {"remove", "list", "show", "save", "install"}, worker |-> {"pair", "poll"},
                 auth |-> {"unlock"}]
=============================================================================
