----------------------------- MODULE MCPrograms -----------------------------
(* Programs that share nothing, each small: a behaviour is of one of them, and *)
(* the others do not move from some initial state of theirs.                  *)
EXTENDS JupyterKernel, SystemdCalendar, InstanceParameters, LogRedirection, WrapperRecipe,
        Publication, UserConfiguration, PartitionConfiguration, GeneratedValues, TracSite,
        SignalTranslation

VARIABLE which

programVars ==
  <<kernelVars, calendarVars, parametersVars, redirectionVars, wrapperVars, publicationVars,
    userVars, partitionVars, generatedVars, tracVars, translationVars>>

NoKernel ==
  /\ attr = [a \in Attributes |-> Unset] /\ status = "none" /\ response = "nothing"
  /\ kernel = "idle" /\ cell = 0 /\ runs = 0 /\ shown = "nothing"
NoCalendar ==
  /\ calendar = [symbol |-> "none"] /\ cron = Star /\ cronDow = {} /\ field = 0
  /\ outcome = "none"
NoParameters ==
  /\ given = [schema |-> "none"] /\ step = "none" /\ done = 0
  /\ valid = Nobody /\ invalid = Nobody /\ main = Absent

NoPartition ==
  /\ answer = [number |-> 1, type |-> "import", ipv4 |-> TRUE]
  /\ mounted = {} /\ resourceFile = {}

Init ==
  /\ which \in {"kernel", "calendar", "parameters", "redirection", "wrapper", "publication",
                "user", "partition", "generation", "trac", "translation"}
  /\ IF which = "kernel" THEN KernelInit ELSE NoKernel
  /\ IF which = "calendar" THEN CalendarInit ELSE NoCalendar
  /\ IF which = "parameters" THEN ParametersInit ELSE NoParameters
  /\ WrapperInit /\ (which = "wrapper" \/ (~python /\ wanted = <<>>))
  /\ UserInit /\ (which = "user" \/ profile = None)
  /\ PartitionInit /\ (which = "partition" \/ NoPartition)
  /\ TracInit /\ (which = "trac" \/ wishes = {})
  /\ RedirectionInit /\ PublicationInit /\ GenerationInit /\ TranslationInit

Next ==
  /\ UNCHANGED which
  /\ \/ /\ which = "kernel" /\ KernelNext
        /\ UNCHANGED <<calendarVars, parametersVars, redirectionVars, wrapperVars, publicationVars,
                       userVars, partitionVars, generatedVars, tracVars, translationVars>>
     \/ /\ which = "calendar" /\ CalendarNext
        /\ UNCHANGED <<kernelVars, parametersVars, redirectionVars, wrapperVars, publicationVars,
                       userVars, partitionVars, generatedVars, tracVars, translationVars>>
     \/ /\ which = "parameters" /\ ParametersNext
        /\ UNCHANGED <<kernelVars, calendarVars, redirectionVars, wrapperVars, publicationVars,
                       userVars, partitionVars, generatedVars, tracVars, translationVars>>
     \/ /\ which = "redirection" /\ RedirectionNext
        /\ UNCHANGED <<kernelVars, calendarVars, parametersVars, wrapperVars, publicationVars,
                       userVars, partitionVars, generatedVars, tracVars, translationVars>>
     \/ /\ which = "wrapper" /\ WrapperNext
        /\ UNCHANGED <<kernelVars, calendarVars, parametersVars, redirectionVars, publicationVars,
                       userVars, partitionVars, generatedVars, tracVars, translationVars>>
     \/ /\ which = "publication" /\ PublicationNext
        /\ UNCHANGED <<kernelVars, calendarVars, parametersVars, redirectionVars, wrapperVars,
                       userVars, partitionVars, generatedVars, tracVars, translationVars>>
     \/ /\ which = "user" /\ UserNext
        /\ UNCHANGED <<kernelVars, calendarVars, parametersVars, redirectionVars, wrapperVars,
                       publicationVars, partitionVars, generatedVars, tracVars, translationVars>>
     \/ /\ which = "partition" /\ PartitionNext
        /\ UNCHANGED <<kernelVars, calendarVars, parametersVars, redirectionVars, wrapperVars,
                       publicationVars, userVars, generatedVars, tracVars, translationVars>>
     \/ /\ which = "generation" /\ GenerationNext
        /\ UNCHANGED <<kernelVars, calendarVars, parametersVars, redirectionVars, wrapperVars,
                       publicationVars, userVars, partitionVars, tracVars, translationVars>>
     \/ /\ which = "trac" /\ TracNext
        /\ UNCHANGED <<kernelVars, calendarVars, parametersVars, redirectionVars, wrapperVars,
                       publicationVars, userVars, partitionVars, generatedVars, translationVars>>
     \/ /\ which = "translation" /\ TranslationNext
        /\ UNCHANGED <<kernelVars, calendarVars, parametersVars, redirectionVars, wrapperVars,
                       publicationVars, userVars, partitionVars, generatedVars, tracVars>>

Spec == Init /\ [][Next]_<<which, programVars>>
=============================================================================
