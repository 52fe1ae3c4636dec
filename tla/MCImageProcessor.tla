-------------------------- MODULE MCImageProcessor --------------------------
(***************************************************************************)
(* Small instances of ImageProcessor.  The options are those of the stress    *)
(* test of test.cpp in small, and some it leaves out: an unknown flag, words  *)
(* too many, and numbers that an int16_t does not hold.                       *)
(***************************************************************************)
EXTENDS ImageProcessor, TLC

Ints == "0" :> 0 @@ "1" :> 1 @@ "2" :> 2 @@ "65536" :> 65536 @@ "65537" :> 65537 @@ "40000" :> 40000
Tenths == "0" :> 0 @@ "1" :> 10 @@ "0.1" :> 1 @@ "0.7" :> 7

Right == {<<"-crop", "1", "2">>, <<"-crop", "2", "1">>, <<"-crop", "65537", "40000">>,
          <<"-crop", "2", "65536">>,
          <<"-gs">>, <<"-sharp">>, <<"-edge", "0.1">>,
          <<"-blur", "0.7">>, <<"-blur", "1">>, <<"-blur", "0">>, <<"-other">>,
          <<"-tunnel", "0", "0", "1", "0.7">>, <<"-tunnel", "2", "1", "1", "1">>}
Wrong == {<<"-crop", "0", "1">>, <<"-crop", "2">>, <<"-blur", "-other">>, <<"-gs", "1">>,
          <<"-tunnel", "0", "0.7", "1", "1">>}
All == Right \cup Wrong
=============================================================================
