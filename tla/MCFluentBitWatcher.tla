------------------------- MODULE MCFluentBitWatcher -------------------------
EXTENDS FluentBitWatcherProperties, BackoffArithmetic
Gzip02 == {0, 2}
Gzip1 == {1}

=============================================================================
