SPECIFICATION Spec
INVARIANTS RenderingExact SpeechExact ProjectExact FootageExact
CHECK_DEADLOCK FALSE
