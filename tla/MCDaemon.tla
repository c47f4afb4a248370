------------------------------ MODULE MCDaemon ------------------------------
(* The example configurations, and variants of them with one text changed: *)
(* at the ends of the schema's ranges and beyond, wrapped around by a sign  *)
(* or by the width, and written in every form.                             *)
EXTENDS Daemon

MCReports == {"capture", "playback"}

plain(n) == [value |-> n, form |-> "plain"]
texts(values, forms) == [value : values, form : forms]

exampleValue == [sampleRate |-> 48000, channels |-> 2, quantum |-> 256,
                 periodFrames |-> 256, periods |-> 4, autoConnect |-> 1,
                 enabled |-> 1, thresholdDb |-> -8, ratio |-> 8, attackMs |-> 2,
                 releaseMs |-> 666, kneeDb |-> 12, makeupGainDb |-> 0]

example(kind) ==
  [readable |-> TRUE, schema |-> "parsed", kind |-> kind, level |-> "info",
   filePath |-> "empty", text |-> [f \in fields(kind) |-> plain(exampleValue[f])]]

with(kind, f, ts) == {[example(kind) EXCEPT !.text[f] = t] : t \in ts}

MCFiles ==
  {example(kind) : kind \in {"alsa", "jack", "pipewire", "none"}}
  \cup with("pipewire", "sampleRate",
         texts({7999, 8000, 384000, 384001, -48000, UintRange + 48000, SizeRange + 48000},
               {"plain"})
         \cup texts({48000}, {"leading", "trailing", "suffix", "exponent", "word",
                              "absent"}))
  \cup with("pipewire", "channels", texts({0, 1, 3}, {"plain"}))
  \cup with("pipewire", "quantum", texts({15, 8192}, {"plain"}))
  \cup with("alsa", "channels", texts({64, 65}, {"plain"}))
  \cup with("alsa", "periods", texts({1}, {"plain"}))
  \cup with("pipewire", "ratio",
         texts({0, 1, 2, 201}, {"plain"}) \cup texts({8}, {"exponent", "word", "trailing"}))
  \cup with("pipewire", "enabled",
         texts({0, 1}, {"plain", "leading", "upper"}) \cup texts({1}, {"absent", "word"}))
  \cup {[example("pipewire") EXCEPT !.level = l, !.filePath = p] :
          l \in {"debug", "error", "critical", "verbose"},
          p \in {"empty", "writable"}}
  \cup {[example("pipewire") EXCEPT !.filePath = p] : p \in {"writable", "unwritable"}}
  \cup {[example("pipewire") EXCEPT !.readable = FALSE],
        [example("pipewire") EXCEPT !.schema = "broken"]}

MCCompiled == {"alsa", "pipewire"}
=============================================================================
