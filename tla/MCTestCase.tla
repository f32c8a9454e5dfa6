------------------------------ MODULE MCTestCase ----------------------------
(* TestCase with the two programs of src/utils and, for the constructors   *)
(* they do not call, start-up functions in the place demo-template.cpp     *)
(* leaves for them.                                                        *)
EXTENDS TestCase

Window == <<Make(<<"window", 1>>, {})>>

Kit == {NewEvent(1) \o AddEventHandler(1, {}) \o new_video_sysbuf(1)
          \o new_audio_sysbuf(2),
        new_video_qdmabuf(1) \o NewEvent(1)
          \o AddEventHandler(1, {<<"dmabuf", 1>>}),
        Window \o StartVsink_ximage(1, <<"window", 1>>) \o new_video_nvbuf(2),
        new_video_cudabuf(1) \o new_video_cudabuf_host(2)
          \o new_video_cudabuf_managed(3)}

AllPrograms == {DanteBox, QDemo} \cup {Threaded(k, TRUE) : k \in Kit}

=============================================================================
